---- MODULE Spec2Model ----
(***************************************************************************)
(* Verification model of the creator-discovery backend.                    *)
(*                                                                         *)
(* Part I   search service: RQ job, ProgressEmitter, GET /job/{id}/stream  *)
(***************************************************************************)
EXTENDS Integers, Sequences, FiniteSets, TLC

(* ----------------------------------------------------------------------- *)
(* Bounds of the model                                                     *)
(* ----------------------------------------------------------------------- *)
\* progress events a pipeline job emits before its "completed" event
MaxProgress == 2
\* BrightData job service: jobs enqueued, stream subscribers, progress
\* callbacks one refresh makes, permits of the job semaphore
NumJobs == 2
NumSubs == 1
MaxBdProgress == 2
MaxConcurrency == 1
\* ticks of the job service's clock
MaxBdClock == 1
\* vendor refresh: handles in one request, and the BRIGHTDATA_MAX_URLS the
\* model runs with (chunk size)
MaxProfiles == 5
MaxUrls == 2
\* discovery pipeline: profiles a search returns
MaxFound == 2
\* ingestion: chunks of the dataset, the --max-attempts the model runs with,
\* batches the API accepts, starts of the pipeline
NumChunks == 2
MaxAttempts == 2
MaxBatches == 3
MaxRuns == 4
\* ingestion, Steps 0 and 1: edits of the input and prompt files, starts of
\* the pipeline
MaxEdits == 2
MaxPrepRuns == 3
\* job registry: jobs enqueued, ticks of the clock, and the _jobs_max and
\* _jobs_ttl_seconds (in ticks) the model runs the registry with
MaxRegJobs == 3
MaxRegNow == 3
RegJobsMax == 2
RegTtl == 1
\* reranker: documents of a request, items of an upstream answer
MaxRerankDocs == 2
MaxRerankItems == 2
\* lance_db_id allocation: input rows of one platform
MaxLanceRows == 2
\* image proxy: redirects the HTTP client follows in one fetch
MaxRedirects == 2

(* ----------------------------------------------------------------------- *)
(* Program constants                                                       *)
(* ----------------------------------------------------------------------- *)
\* jobs.py: HEARTBEAT_INTERVAL = 15 (seconds)
HEARTBEAT_INTERVAL == 15
\* image_refresh_service.py: self._event_history_limit = 100
EventHistoryLimit == 100
\* image_refresh_service.py: self._jobs_max = 1000
JobsMax == 1000

Terminal == {"finished", "failed"}

Last(s) == s[Len(s)]

RECURSIVE SeqToSet(_)
SeqToSet(s) == IF s = <<>> THEN {} ELSE {Head(s)} \cup SeqToSet(Tail(s))

(***************************************************************************)
(* Part I.  Search service job stream                                      *)
(***************************************************************************)
VARIABLES
    RQ_PUBSUB_EVENTS,  \* settings.RQ_PUBSUB_EVENTS: pub/sub (TRUE) or polling
    jobStatus,         \* RQ job status: queued, started, finished, failed
    jobMetaEvents,     \* job.meta["events"], the persisted event list
    workerPc,          \* run_pipeline_job: "idle", "running", "completed", "done"
    subscribed,        \* the stream's pubsub is subscribed to the job channel
    inbox,             \* messages published to the subscribed channel, unread
    pubLost,           \* a redis.publish raised and was swallowed
    esPc,              \* position of the _event_stream generator
    seen,              \* _event_stream (polling): index of the next event
    hbPc,              \* heartbeat_stream: "none", "waiting", "closed"
    idle,              \* seconds elapsed in the current asyncio.wait_for
    delivered          \* frames written to the HTTP response, in order

streamVars == <<RQ_PUBSUB_EVENTS, jobStatus, jobMetaEvents, workerPc, subscribed,
                inbox, pubLost, esPc, seen, hbPc, idle, delivered>>

(***************************************************************************)
(* State of Part II.  BrightData job service (image_refresh_service.py)    *)
(***************************************************************************)
VARIABLES
    immediate,   \* settings.BRIGHTDATA_JOBS_IMMEDIATE
    svc,         \* ImageRefreshService: _jobs, the JobEntry objects, the
                 \* subscriber queues, the semaphore
    ready,       \* the event loop's FIFO of scheduled callbacks
    thread,      \* per job: the executor thread running refresh_profiles
    subs         \* per subscriber: the iterator made by stream_job_events

bdVars == <<immediate, svc, ready, thread, subs>>

(***************************************************************************)
(* State of Part III.  Vendor refresh worker (image_refresh_worker.py)     *)
(***************************************************************************)
VARIABLES
    wProfiles,   \* refresh_profiles(profiles): the platform of each handle
    wPc,         \* main thread: "idle", "submit", "collect", "aborting",
                 \* "returned", "raised"
    wPlatform,   \* index of the current platform in grouped
    wChunk,      \* per chunk of the current platform: the state of its future
    wConsumed,   \* chunks whose future the as_completed loop has taken
    wResults,    \* aggregated_results, as <<platform, chunk_index>> pairs
    wLog         \* the progress_cb calls made so far

wkVars == <<wProfiles, wPc, wPlatform, wChunk, wConsumed, wResults, wLog>>

(***************************************************************************)
(* State of Part IV.  Discovery pipeline (orchestrator.py, search_engine)  *)
(***************************************************************************)
VARIABLES
    pEntry,        \* "run" (CreatorDiscoveryPipeline.run via run_pipeline) or
                   \* "evaluate_profiles" (FastAPISearchEngine)
    pRequest,      \* the request: flags, business_fit_query given, limits
    pFound,        \* what the search returns / the profiles handed in
    pPc,           \* "start", "rerank", "brightdata", "llm", "returned", "raised"
    pProfiles,     \* the local profiles / search_results
    pSuccessKeys,  \* success_keys of the BrightData stage
    pLlmCalled,    \* LLMFitStage.run was called
    pLlmInputs,    \* the profiles it was called with
    pEvents        \* stages reported through progress_cb

pipeVars == <<pEntry, pRequest, pFound, pPc, pProfiles, pSuccessKeys,
              pLlmCalled, pLlmInputs, pEvents>>

(***************************************************************************)
(* State of Part V.  Ingestion, Step 2 (pipeline_batch_process.py)         *)
(***************************************************************************)
VARIABLES
    iDisk,          \* the two state files: jobs (batch-job state) and
                    \* processed (processed-files history)
    iCsv,           \* chunks whose result CSV exists
    iBatches,       \* the batches at the batch API, by batch id
    iRuns,          \* number of times the pipeline was started
    iPc,            \* "down" (no process), "run", "loop", "polling",
                    \* "after_wait", "resume_failed", "upload", "exit"
    iForce,         \* --force of the current run
    iPrompt,        \* prompt_file_name of the current run
    iTest,          \* --test of the current run
    iMem,           \* self.job_state
    iProc,          \* self.processed_files: prompts with a "process" record
    iWriting,       \* the state file being written: "none", "jobs", "processed"
    iIdx,           \* process_batches: index of the current chunk
    iExisting,      \* process_batches: existing_job as loaded
    iJob,           \* process_batches: job, the record being worked on
    iAttempts,      \* _wait_for_batch: attempts
    iAnySubmitted,  \* process_batches: any_submitted
    iEverProcessed  \* history: the prompts whose "process" record was once
                    \* written to the processed-files history in full

ingestVars == <<iDisk, iCsv, iBatches, iRuns, iPc, iForce, iPrompt, iTest, iMem,
                iProc, iWriting, iIdx, iExisting, iJob, iAttempts, iAnySubmitted,
                iEverProcessed>>

(***************************************************************************)
(* State of Part VI.  Ingestion, Steps 0 and 1 (pipeline_batch_process.py) *)
(***************************************************************************)
VARIABLES
    fCsv,           \* the input CSVs: contents of each
    fTemplate,      \* the prompt files: text of each
    fEnglish,       \* step0_language_filter/<namespace>_english_profiles.csv and
                    \* _excluded_profiles.csv: the contents they were filtered
                    \* from and the batch size they were filtered with
    fMeta,          \* step0_language_filter/metadata.json
    fChunk,         \* step1_batch_inputs/<namespace>_batch_001.jsonl
    fChunkMeta,     \* step1_batch_inputs/<namespace>_batch_001.metadata.json
    fEdits,         \* number of edits of input and prompt files
    fRuns,          \* number of times the pipeline was started
    fPc,            \* "down", "start", "filtered", "prepared"
    fDs,            \* the CSV of the current run
    fForce,         \* --force
    fBatchSize,     \* --language-batch-size
    fPromptName,    \* prompt_file_name
    fHash,          \* self.file_hash
    fDetected,      \* the language detector was invoked in this run
    fWrote,         \* the files written in this run
    fReported       \* the row counts Step 0 printed

prepVars == <<fCsv, fTemplate, fEnglish, fMeta, fChunk, fChunkMeta, fEdits, fRuns,
              fPc, fDs, fForce, fBatchSize, fPromptName, fHash, fDetected, fWrote,
              fReported>>

(***************************************************************************)
(* State of Part VII.  BrightData job registry and its clock               *)
(* (image_refresh_service.py, _jobs / _cleanup_jobs)                       *)
(***************************************************************************)
VARIABLES
    \* the keys of self._jobs, the next job to be enqueued, the JobEntry
    \* fields that _cleanup_jobs reads (status, queued_at, ended_at)
    rIds,
    rNextId,
    rEntry,
    \* datetime.now(timezone.utc), in ticks
    rNow,
    \* history: the entries the latest _cleanup_jobs popped, each with the
    \* time since its ended_at at that moment
    rDropped

regVars == <<rIds, rNextId, rEntry, rNow, rDropped>>

(***************************************************************************)
(* State of Part VIII.  Reranker proxy (core/rerank.py, api/v1/rerank.py,  *)
(* services/rerank_client.py)                                              *)
(***************************************************************************)
VARIABLES
    kDocuments,   \* len(request.documents)
    kTopK,        \* request.top_k (0: not given)
    kDocs,        \* len(docs), the documents sent upstream
    kPc,          \* "start", "called", "returned"
    kRanking      \* what RerankClient.rerank returns: (index, score) pairs

rerankVars == <<kDocuments, kTopK, kDocs, kPc, kRanking>>

(***************************************************************************)
(* State of Part IX.  lance_db_id allocation (pipeline_batch_process.py,   *)
(* pipeline_build_parquet.py)                                              *)
(***************************************************************************)
VARIABLES
    lInstagram,   \* the lance_db_id cell of each Instagram input row
    lTiktok,      \* the lance_db_id cell of each TikTok input row
    lHasColumn,   \* the CSV given to _ensure_lance_ids has the column
    lPc,          \* "start", or the function that has run
    lOut          \* the lance_db_id of each row of the output, in order

lanceVars == <<lInstagram, lTiktok, lHasColumn, lPc, lOut>>

(***************************************************************************)
(* State of Part X.  Image proxy (api/v1/images.py, GET /proxy)            *)
(***************************************************************************)
VARIABLES
    xUrl,      \* the url query parameter: its scheme and its host
    xPc,       \* "start", "sending", "responded", "streaming", "rejected"
    xTarget,   \* the host the HTTP client fetches next
    xSent,     \* the hosts a request was sent to, in order
    xStatus    \* the status code the endpoint answers with, 0 before

proxyVars == <<xUrl, xPc, xTarget, xSent, xStatus>>

(***************************************************************************)
(* State of Part XI.  Standalone fit-scoring job (rq_jobs.py,              *)
(* search_engine.py run_profile_fit_stage)                                 *)
(***************************************************************************)
VARIABLES
    tRequest,      \* the ProfileFitStageRequest: use_brightdata, max_profiles
    tInput,        \* req.profiles
    tPc,           \* "start", "brightdata", "llm", "returned", "raised"
    tWorking,      \* working_set
    tSuccessKeys,  \* the keys the BrightData stage reported as successful
    tLlmCalled,    \* LLMFitStage.run was called
    tLlmInputs     \* the profiles it was called with

fitVars == <<tRequest, tInput, tPc, tWorking, tSuccessKeys, tLlmCalled, tLlmInputs>>

(* the variables an action of one part leaves alone *)
notStream == <<bdVars, wkVars, pipeVars, ingestVars, prepVars, regVars,
    rerankVars, lanceVars, proxyVars, fitVars>>
notBD == <<streamVars, wkVars, pipeVars, ingestVars, prepVars, regVars,
    rerankVars, lanceVars, proxyVars, fitVars>>
notWk == <<streamVars, bdVars, pipeVars, ingestVars, prepVars, regVars,
    rerankVars, lanceVars, proxyVars, fitVars>>
notPipe == <<streamVars, bdVars, wkVars, ingestVars, prepVars, regVars,
    rerankVars, lanceVars, proxyVars, fitVars>>
notIngest == <<streamVars, bdVars, wkVars, pipeVars, prepVars, regVars,
    rerankVars, lanceVars, proxyVars, fitVars>>
notPrep == <<streamVars, bdVars, wkVars, pipeVars, ingestVars, regVars,
    rerankVars, lanceVars, proxyVars, fitVars>>
notReg == <<streamVars, bdVars, wkVars, pipeVars, ingestVars, prepVars,
    rerankVars, lanceVars, proxyVars, fitVars>>
notRerank == <<streamVars, bdVars, wkVars, pipeVars, ingestVars, prepVars,
    regVars, lanceVars, proxyVars, fitVars>>
notLance == <<streamVars, bdVars, wkVars, pipeVars, ingestVars, prepVars,
    regVars, rerankVars, proxyVars, fitVars>>
notProxy == <<streamVars, bdVars, wkVars, pipeVars, ingestVars, prepVars,
    regVars, rerankVars, lanceVars, fitVars>>
notFit == <<streamVars, bdVars, wkVars, pipeVars, ingestVars, prepVars,
    regVars, rerankVars, lanceVars, proxyVars>>

\* an event as ProgressEmitter.emit builds it (ts replaced by the append index)
Event(n, stage) == [seq |-> n, stage |-> stage]

\* SSE frames: one event, the pub/sub snapshot frame, the heartbeat comment
EventFrame(e) == [stage |-> e.stage, ids |-> {e.seq}]
SnapshotFrame(evs) == [stage |-> "snapshot", ids |-> {e.seq : e \in SeqToSet(evs)}]
HeartbeatFrame == [stage |-> "heartbeat", ids |-> {}]

InitStream ==
    /\ RQ_PUBSUB_EVENTS \in BOOLEAN
    /\ jobStatus = "queued"
    /\ jobMetaEvents = <<>>
    /\ workerPc = "idle"
    /\ subscribed = FALSE
    /\ inbox = <<>>
    /\ pubLost = FALSE
    /\ esPc = "none"
    /\ seen = 0
    /\ hbPc = "none"
    /\ idle = 0
    /\ delivered = <<>>

(* ---------------- worker side: rq_jobs.py, progress.py ----------------- *)

\* redis.publish(channel, event): reaches the subscribers of the channel
Publish(e) == IF subscribed THEN Append(inbox, e) ELSE inbox

\* ProgressEmitter.emit: append to job.meta["events"], save_meta, then publish
\* best-effort (an exception of publish is swallowed).
emit(stage, published) ==
    LET e == Event(Len(jobMetaEvents) + 1, stage) IN
    /\ jobMetaEvents' = Append(jobMetaEvents, e)
    /\ inbox' = IF published THEN Publish(e) ELSE inbox
    /\ pubLost' = (pubLost \/ ~published)

\* The RQ worker picks the job up and calls run_pipeline_job.
JobStart ==
    /\ workerPc = "idle"
    /\ workerPc' = "running"
    /\ jobStatus' = "started"
    /\ UNCHANGED <<RQ_PUBSUB_EVENTS, jobMetaEvents, subscribed, inbox, pubLost,
                   esPc, seen, hbPc, idle, delivered>>
    /\ UNCHANGED notStream

\* run_pipeline_job: the pipeline's progress_cb -> _emit -> emitter.emit
JobEmitProgress ==
    /\ workerPc = "running"
    /\ Len(jobMetaEvents) < MaxProgress
    /\ \E published \in BOOLEAN : emit("progress", published)
    /\ UNCHANGED <<RQ_PUBSUB_EVENTS, jobStatus, workerPc, subscribed,
                   esPc, seen, hbPc, idle, delivered>>
    /\ UNCHANGED notStream

\* run_pipeline_job: emitter.emit("completed", completed)
JobEmitCompleted ==
    /\ workerPc = "running"
    /\ \E published \in BOOLEAN : emit("completed", published)
    /\ workerPc' = "completed"
    /\ UNCHANGED <<RQ_PUBSUB_EVENTS, jobStatus, subscribed,
                   esPc, seen, hbPc, idle, delivered>>
    /\ UNCHANGED notStream

\* run_pipeline_job returns; RQ marks the job finished.
JobReturn ==
    /\ workerPc = "completed"
    /\ workerPc' = "done"
    /\ jobStatus' = "finished"
    /\ UNCHANGED <<RQ_PUBSUB_EVENTS, jobMetaEvents, subscribed, inbox, pubLost,
                   esPc, seen, hbPc, idle, delivered>>
    /\ UNCHANGED notStream

\* run_pipeline_job raises (a stage error, the RQ job timeout): RQ marks the
\* job failed. No event is emitted on this path.
JobFail ==
    /\ workerPc = "running"
    /\ workerPc' = "done"
    /\ jobStatus' = "failed"
    /\ UNCHANGED <<RQ_PUBSUB_EVENTS, jobMetaEvents, subscribed, inbox, pubLost,
                   esPc, seen, hbPc, idle, delivered>>
    /\ UNCHANGED notStream

(* ---------------- API side: api/v1/jobs.py ----------------------------- *)

\* GET /job/{id}/stream: stream_job builds _event_stream and heartbeat_stream;
\* the response starts pulling, i.e. the first wait_for(iterator.__anext__()).
stream_job ==
    /\ hbPc = "none"
    /\ hbPc' = "waiting"
    /\ esPc' = "start"
    /\ idle' = 0
    /\ UNCHANGED <<RQ_PUBSUB_EVENTS, jobStatus, jobMetaEvents, workerPc, subscribed,
                   inbox, pubLost, seen, delivered>>
    /\ UNCHANGED notStream

\* _event_stream, pub/sub branch: await pubsub.subscribe(channel)
EsSubscribe ==
    /\ hbPc = "waiting" /\ esPc = "start" /\ RQ_PUBSUB_EVENTS
    /\ subscribed' = TRUE
    /\ esPc' = "subscribed"
    /\ UNCHANGED <<RQ_PUBSUB_EVENTS, jobStatus, jobMetaEvents, workerPc,
                   inbox, pubLost, seen, hbPc, idle, delivered>>
    /\ UNCHANGED notStream

\* _event_stream, pub/sub branch: snapshot = job_status(job_id); yield the
\* snapshot frame; then enter pubsub.listen().
EsSnapshot ==
    /\ hbPc = "waiting" /\ esPc = "subscribed"
    /\ delivered' = Append(delivered, SnapshotFrame(jobMetaEvents))
    /\ esPc' = "listen"
    /\ idle' = 0
    /\ UNCHANGED <<RQ_PUBSUB_EVENTS, jobStatus, jobMetaEvents, workerPc, subscribed,
                   inbox, pubLost, seen, hbPc>>
    /\ UNCHANGED notStream

\* _event_stream, pub/sub branch: one message of pubsub.listen(): yield it and
\* break (finally: unsubscribe, close) iff its stage is "completed".
EsListenBody(stopStage) ==
    /\ hbPc = "waiting" /\ esPc = "listen" /\ inbox # <<>>
    /\ delivered' = Append(delivered, EventFrame(Head(inbox)))
    /\ idle' = 0
    /\ IF Head(inbox).stage \in stopStage
       THEN /\ esPc' = "done"
            /\ hbPc' = "closed"
            /\ subscribed' = FALSE
            /\ inbox' = <<>>
       ELSE /\ inbox' = Tail(inbox)
            /\ UNCHANGED <<esPc, hbPc, subscribed>>
    /\ UNCHANGED <<RQ_PUBSUB_EVENTS, jobStatus, jobMetaEvents, workerPc, pubLost, seen>>
    /\ UNCHANGED notStream

EsListen == EsListenBody({"completed"})

\* _event_stream, polling branch: one round of the while loop: take the
\* snapshot, yield events[seen:], then break on a terminal status or sleep(1.0).
\* (The 15th wake-up of the sleep comes after the wait_for deadline.)
EsPoll ==
    /\ hbPc = "waiting" /\ ~RQ_PUBSUB_EVENTS
    /\ esPc \in {"start", "poll"}
    /\ idle < HEARTBEAT_INTERVAL
    /\ LET events == jobMetaEvents
           fresh == SubSeq(events, seen + 1, Len(events))
       IN /\ delivered' = delivered \o [i \in 1..Len(fresh) |-> EventFrame(fresh[i])]
          /\ seen' = Len(events)
          /\ idle' = IF fresh # <<>> THEN 0 ELSE idle
    /\ IF jobStatus \in Terminal
       THEN esPc' = "done" /\ hbPc' = "closed"
       ELSE esPc' = "sleep" /\ hbPc' = hbPc
    /\ UNCHANGED <<RQ_PUBSUB_EVENTS, jobStatus, jobMetaEvents, workerPc, subscribed,
                   inbox, pubLost>>
    /\ UNCHANGED notStream

\* the generator is suspended in an await (sleep, or listen with nothing to read)
EsBlocked ==
    \/ esPc \in {"sleep", "poll"}
    \/ esPc = "listen" /\ inbox = <<>>

\* One second passes while heartbeat_stream waits in wait_for and the
\* generator is suspended; a sleeping poll loop becomes due.
Tick ==
    /\ hbPc = "waiting"
    /\ esPc = "sleep" \/ (esPc = "listen" /\ inbox = <<>>)
    /\ idle < HEARTBEAT_INTERVAL
    /\ idle' = idle + 1
    /\ esPc' = IF esPc = "sleep" THEN "poll" ELSE esPc
    /\ UNCHANGED <<RQ_PUBSUB_EVENTS, jobStatus, jobMetaEvents, workerPc, subscribed,
                   inbox, pubLost, seen, hbPc, delivered>>
    /\ UNCHANGED notStream

\* heartbeat_stream: asyncio.wait_for(iterator.__anext__(), 15) times out: it
\* cancels the pending __anext__, so CancelledError is raised inside the
\* generator (whose finally unsubscribes), and the heartbeat is yielded.
HbTimeout ==
    /\ hbPc = "waiting"
    /\ idle = HEARTBEAT_INTERVAL
    /\ EsBlocked
    /\ delivered' = Append(delivered, HeartbeatFrame)
    /\ esPc' = "cancelled"
    /\ subscribed' = FALSE
    /\ inbox' = <<>>
    /\ idle' = 0
    /\ UNCHANGED <<RQ_PUBSUB_EVENTS, jobStatus, jobMetaEvents, workerPc,
                   pubLost, seen, hbPc>>
    /\ UNCHANGED notStream

\* heartbeat_stream: the next __anext__() of the finished generator raises
\* StopAsyncIteration: break.
HbStop ==
    /\ hbPc = "waiting"
    /\ esPc = "cancelled"
    /\ hbPc' = "closed"
    /\ UNCHANGED <<RQ_PUBSUB_EVENTS, jobStatus, jobMetaEvents, workerPc, subscribed,
                   inbox, pubLost, esPc, seen, idle, delivered>>
    /\ UNCHANGED notStream


(***************************************************************************)
(* Part II.  BrightData job service                                        *)
(*                                                                         *)
(* The service runs on one asyncio event loop.  A coroutine runs until it  *)
(* really suspends; acquiring the uncontended asyncio.Lock, putting into   *)
(* an unbounded asyncio.Queue and awaiting a coroutine that does not       *)
(* suspend are no suspension points, and no coroutine suspends while it    *)
(* holds self._lock.  Each action below is one such uninterrupted segment. *)
(* Callbacks handed to the loop (call_soon, call_soon_threadsafe) run in   *)
(* FIFO order.                                                             *)
(***************************************************************************)
Jobs == 1..NumJobs
Subs == 1..NumSubs

\* a timestamp field that is None
NoTime == -1

\* JobEntry before enqueue_refresh_job created it
NoEntry == [status |-> "none", started |-> FALSE, ended |-> FALSE,
            queued_at |-> NoTime, started_at |-> NoTime, ended_at |-> NoTime,
            result |-> FALSE, error |-> FALSE,
            events |-> <<>>, emitted |-> 0, subscribers |-> {}]

\* the iterator of a subscriber that has not called stream_job_events
NoSub == [pc |-> "none", job |-> 0, history |-> <<>>, pos |-> 0,
          terminal |-> FALSE, attachStatus |-> "none", hasQueue |-> FALSE,
          live |-> <<>>, heartbeats |-> 0]

InitBDWith(imm) ==
    /\ immediate = imm
    /\ svc = [jobs |-> {},
              entry |-> [j \in Jobs |-> NoEntry],
              queues |-> [q \in Subs |-> <<>>],
              semValue |-> MaxConcurrency,
              semWaiters |-> <<>>,
              now |-> 0]
    /\ ready = <<>>
    /\ thread = [j \in Jobs |-> [pc |-> "idle", calls |-> 0]]
    /\ subs = [q \in Subs |-> NoSub]

\* a loop that would run the newest callback first (asyncio does not): the
\* variant against which the ordering argument is tested
call_soon_lifo(q, handle) == <<handle>> \o q

\* loop.call_soon / call_soon_threadsafe: append to the loop's ready queue
call_soon(q, handle) == Append(q, handle)

Handle(kind, j, arg) == [kind |-> kind, job |-> j, arg |-> arg]

\* the marker _close_subscribers puts on a queue (None)
CloseMarker == [event |-> "None", n |-> 0, status |-> "none", timestamp |-> 0]

\* a clock that would run backwards: the variant against which the order of
\* the timestamps is tested
_ts_backwards(s) == MaxBdClock - s.now

\* _ts(): datetime.now(timezone.utc), read from the service's clock
_ts(s) == s.now

\* _cleanup_jobs: drop the jobs whose ended_at is older than the TTL, then,
\* while more than _jobs_max jobs remain, terminal jobs (oldest first; the
\* choice among them is left open).
RECURSIVE DropOverflow(_, _)
DropOverflow(s, overflow) ==
    LET removable == {j \in s.jobs : s.entry[j].status \in Terminal} IN
    IF overflow <= 0 \/ removable = {}
    THEN s
    ELSE LET j == CHOOSE x \in removable : \A y \in removable : x <= y
         IN DropOverflow([s EXCEPT !.jobs = @ \ {j}], overflow - 1)

\* the jobs whose TTL may have run out when _cleanup_jobs reads the clock
Ended(s) == {j \in s.jobs : s.entry[j].ended}

_cleanup_jobs(s, elapsed) ==
    LET expired == {j \in s.jobs : s.entry[j].ended /\ j \in elapsed}
        kept == [s EXCEPT !.jobs = @ \ expired]
        overflow == Cardinality(kept.jobs) - JobsMax
    IN IF overflow <= 0 THEN kept ELSE DropOverflow(kept, overflow)

\* _emit_event: build the payload (with the job snapshot), append it to
\* entry.events under the history limit, put it on every subscriber queue,
\* then run _cleanup_jobs.
_emit_event(s, j, type, elapsed) ==
    LET e == s.entry[j]
        payload == [event |-> type, n |-> e.emitted + 1, status |-> e.status,
                    timestamp |-> _ts(s)]
        all == Append(e.events, payload)
        kept == IF Len(all) > EventHistoryLimit
                THEN SubSeq(all, Len(all) - EventHistoryLimit + 1, Len(all))
                ELSE all
        s1 == [s EXCEPT !.entry[j].events = kept,
                        !.entry[j].emitted = @ + 1,
                        !.queues = [q \in Subs |->
                                      IF q \in e.subscribers
                                      THEN Append(s.queues[q], payload)
                                      ELSE s.queues[q]]]
    IN _cleanup_jobs(s1, elapsed)

\* _close_subscribers: clear entry.subscribers and put None on each queue
_close_subscribers(s, j) ==
    LET targets == s.entry[j].subscribers IN
    [s EXCEPT !.entry[j].subscribers = {},
              !.queues = [q \in Subs |->
                            IF q \in targets
                            THEN Append(s.queues[q], CloseMarker)
                            ELSE s.queues[q]]]

\* a _mark_started that would record the "started" event and leave the
\* status as it is: the variant against which the status order is tested
_mark_started_no_status(s, j, elapsed) ==
    _emit_event([s EXCEPT !.entry[j].started = TRUE,
                          !.entry[j].started_at = _ts(s)],
                j, "started", elapsed)

\* _mark_started
_mark_started(s, j, elapsed) ==
    _emit_event([s EXCEPT !.entry[j].status = "running",
                          !.entry[j].started = TRUE,
                          !.entry[j].started_at = _ts(s)],
                j, "started", elapsed)

\* a _mark_finished that would set the terminal status and close the
\* subscribers without recording the "finished" event (the code does record it)
_mark_finished_no_event(s, j, elapsed, later) ==
    _close_subscribers(
        _cleanup_jobs([s EXCEPT !.entry[j].status = "finished",
                                !.entry[j].result = TRUE,
                                !.entry[j].ended = TRUE,
                                !.entry[j].ended_at = _ts(s),
                                !.entry[j].error = FALSE,
                                !.now = later],
                      elapsed),
        j)

\* _mark_finished(entry, result): ended_at is one reading of the clock, the
\* timestamp of the "finished" event a later one (the clock shows `later` by
\* the time _emit_event builds the payload)
_mark_finished(s, j, elapsed, later) ==
    _close_subscribers(
        _emit_event([s EXCEPT !.entry[j].status = "finished",
                              !.entry[j].result = TRUE,
                              !.entry[j].ended = TRUE,
                              !.entry[j].ended_at = _ts(s),
                              !.entry[j].error = FALSE,
                              !.now = later],
                    j, "finished", elapsed),
        j)

\* a _mark_failed that would set the failed status and emit the event without
\* storing the error text (the code stores str(exc) under the same lock)
_mark_failed_no_error(s, j, elapsed, later) ==
    _close_subscribers(
        _emit_event([s EXCEPT !.entry[j].status = "failed",
                              !.entry[j].ended = TRUE,
                              !.entry[j].ended_at = _ts(s),
                              !.now = later],
                    j, "failed", elapsed),
        j)

\* _mark_failed(entry, error)
_mark_failed(s, j, elapsed, later) ==
    _close_subscribers(
        _emit_event([s EXCEPT !.entry[j].status = "failed",
                              !.entry[j].error = TRUE,
                              !.entry[j].ended = TRUE,
                              !.entry[j].ended_at = _ts(s),
                              !.now = later],
                    j, "failed", elapsed),
        j)

\* asyncio.Semaphore.release: hand the permit to the first waiter, whose
\* wake-up is scheduled on the loop, or give it back.
SemRelease(s, q) ==
    IF s.semWaiters # <<>>
    THEN [svc |-> [s EXCEPT !.semWaiters = Tail(@)],
          ready |-> call_soon(q, Handle("sem_wakeup", Head(s.semWaiters), "")) ]
    ELSE [svc |-> [s EXCEPT !.semValue = @ + 1], ready |-> q]

\* a _run_job that would call execute() without entering the semaphore: the
\* variant against which the concurrency limit is tested
RunJobBeginUnbounded(s, th, j, elapsed) ==
    IF j \notin s.jobs
    THEN [svc |-> s, thread |-> th]
    ELSE [svc |-> _mark_started(s, j, elapsed),
          thread |-> [th EXCEPT ![j].pc = "running"]]

\* _run_job up to its first suspension: look the entry up, enter the
\* semaphore (or queue up for it), then execute(): _mark_started and hand
\* refresh_profiles to the executor.  Yields the new svc and thread states.
RunJobBegin(s, th, j, elapsed) ==
    IF j \notin s.jobs
    THEN [svc |-> s, thread |-> th]
    ELSE IF s.semValue = 0 \/ s.semWaiters # <<>>
    THEN [svc |-> [s EXCEPT !.semWaiters = Append(@, j)], thread |-> th]
    ELSE [svc |-> _mark_started([s EXCEPT !.semValue = @ - 1], j, elapsed),
          thread |-> [th EXCEPT ![j].pc = "running"]]

\* enqueue_refresh_job: register the entry, emit "queued", then run the job
\* inline (immediate) or create its task.
enqueue_refresh_job(j) ==
    /\ svc.entry[j].status = "none"
    /\ \A i \in Jobs : i < j => svc.entry[i].status # "none"
    /\ \E elapsed \in SUBSET Ended(svc) :
         LET s1 == _emit_event([svc EXCEPT !.jobs = @ \cup {j},
                                           !.entry[j].status = "queued",
                                           !.entry[j].queued_at = _ts(svc)],
                               j, "queued", elapsed)
         IN IF immediate
            THEN LET r == RunJobBegin(s1, thread, j, elapsed)
                 IN svc' = r.svc /\ thread' = r.thread /\ ready' = ready
            ELSE /\ svc' = s1
                 /\ ready' = call_soon(ready, Handle("run_job", j, ""))
                 /\ thread' = thread
    /\ UNCHANGED <<immediate, subs>>
    /\ UNCHANGED notBD

\* the task created for _run_job takes its first step
RunJobTask ==
    /\ ready # <<>> /\ Head(ready).kind = "run_job"
    /\ \E elapsed \in SUBSET Ended(svc) :
         LET r == RunJobBegin(svc, thread, Head(ready).job, elapsed)
         IN svc' = r.svc /\ thread' = r.thread
    /\ ready' = Tail(ready)
    /\ UNCHANGED <<immediate, subs>>
    /\ UNCHANGED notBD

\* a _run_job that waited for the semaphore is woken with the permit
RunJobWakeup ==
    /\ ready # <<>> /\ Head(ready).kind = "sem_wakeup"
    /\ LET j == Head(ready).job IN
        /\ \E elapsed \in SUBSET Ended(svc) :
              svc' = _mark_started(svc, j, elapsed)
        /\ thread' = [thread EXCEPT ![j].pc = "running"]
    /\ ready' = Tail(ready)
    /\ UNCHANGED <<immediate, subs>>
    /\ UNCHANGED notBD

\* worker thread, inside refresh_profiles: progress_cb(stage, data), i.e.
\* asyncio.run_coroutine_threadsafe(self._emit_event(entry, stage, data), loop)
ThreadProgress(j) ==
    /\ thread[j].pc = "running"
    /\ thread[j].calls < MaxBdProgress
    /\ thread' = [thread EXCEPT ![j].calls = @ + 1]
    /\ ready' = call_soon(ready, Handle("progress_cb", j, "progress"))
    /\ UNCHANGED <<immediate, svc, subs>>
    /\ UNCHANGED notBD

\* worker thread: refresh_profiles returns or raises; the executor future's
\* done-callback hands the outcome to the loop.
ThreadDone(j) ==
    /\ thread[j].pc = "running"
    /\ \E outcome \in {"result", "exception"} :
          ready' = call_soon(ready, Handle("set_result", j, outcome))
    /\ thread' = [thread EXCEPT ![j] = [pc |-> "finished", calls |-> 0]]
    /\ UNCHANGED <<immediate, svc, subs>>
    /\ UNCHANGED notBD

\* loop: the run_coroutine_threadsafe callback wraps the coroutine in a task,
\* whose first step is scheduled
LoopProgressCallback ==
    /\ ready # <<>> /\ Head(ready).kind = "progress_cb"
    /\ ready' = call_soon(Tail(ready), Handle("emit_task", Head(ready).job, Head(ready).arg))
    /\ UNCHANGED <<immediate, svc, thread, subs>>
    /\ UNCHANGED notBD

\* loop: the task of a progress event runs _emit_event(entry, stage, data)
LoopEmitTask ==
    /\ ready # <<>> /\ Head(ready).kind = "emit_task"
    /\ \E elapsed \in SUBSET Ended(svc) :
          svc' = _emit_event(svc, Head(ready).job, Head(ready).arg, elapsed)
    /\ ready' = Tail(ready)
    /\ UNCHANGED <<immediate, thread, subs>>
    /\ UNCHANGED notBD

\* loop: the outcome is copied to the awaited future, which schedules the
\* wake-up of execute()
LoopSetResult ==
    /\ ready # <<>> /\ Head(ready).kind = "set_result"
    /\ ready' = call_soon(Tail(ready), Handle("wakeup", Head(ready).job, Head(ready).arg))
    /\ UNCHANGED <<immediate, svc, thread, subs>>
    /\ UNCHANGED notBD

\* loop: execute() resumes after run_in_executor: _mark_finished or
\* _mark_failed, then the semaphore is released.
LoopExecuteResume ==
    /\ ready # <<>> /\ Head(ready).kind = "wakeup"
    /\ \E elapsed \in SUBSET Ended(svc), later \in svc.now..MaxBdClock :
         LET j == Head(ready).job
             s1 == IF Head(ready).arg = "result"
                   THEN _mark_finished(svc, j, elapsed, later)
                   ELSE _mark_failed(svc, j, elapsed, later)
             r == SemRelease(s1, Tail(ready))
         IN svc' = r.svc /\ ready' = r.ready
    /\ UNCHANGED <<immediate, thread, subs>>
    /\ UNCHANGED notBD

\* stream_job_events(job_id): under the lock copy the history, decide
\* terminal, and register a queue unless terminal.  None for an unknown job.
stream_job_events(q, j) ==
    /\ subs[q].pc = "none"
    /\ svc.entry[j].status # "none"
    /\ IF j \notin svc.jobs
       THEN /\ subs' = [subs EXCEPT ![q].pc = "notfound", ![q].job = j]
            /\ svc' = svc
       ELSE LET e == svc.entry[j]
                terminal == e.status \in {"finished", "failed"}
            IN /\ subs' = [subs EXCEPT ![q] = [NoSub EXCEPT
                                 !.pc = "iterating", !.job = j,
                                 !.history = e.events, !.terminal = terminal,
                                 !.attachStatus = e.status,
                                 !.hasQueue = ~terminal]]
               /\ svc' = IF terminal THEN svc
                         ELSE [svc EXCEPT !.entry[j].subscribers = @ \cup {q}]
    /\ UNCHANGED <<immediate, ready, thread>>
    /\ UNCHANGED notBD

\* iterator(): one __anext__: replay the next history event; after the
\* history return if terminal, else take the next item of the queue and stop
\* at None (finally: deregister the queue).
IteratorNext(q) ==
    /\ subs[q].pc = "iterating"
    /\ LET it == subs[q] IN
       IF it.pos < Len(it.history)
       THEN subs' = [subs EXCEPT ![q].pos = @ + 1] /\ svc' = svc
       ELSE IF it.terminal
       THEN subs' = [subs EXCEPT ![q].pc = "closed"] /\ svc' = svc
       ELSE /\ svc.queues[q] # <<>>
            /\ IF Head(svc.queues[q]) = CloseMarker
               THEN /\ subs' = [subs EXCEPT ![q].pc = "closed"]
                    /\ svc' = [svc EXCEPT !.queues[q] = Tail(@),
                                          !.entry[it.job].subscribers = @ \ {q}]
               ELSE /\ subs' = [subs EXCEPT ![q].live = Append(@, Head(svc.queues[q]))]
                    /\ svc' = [svc EXCEPT !.queues[q] = Tail(@)]
    /\ UNCHANGED <<immediate, ready, thread>>
    /\ UNCHANGED notBD

\* stream_refresh_job / event_source: wait_for(iterator.__anext__(), 15)
\* times out while the iterator waits in queue.get(): the heartbeat is sent
\* and the cancelled iterator runs its finally (deregisters the queue); the
\* next __anext__ raises StopAsyncIteration.
IteratorTimeout(q) ==
    /\ subs[q].pc = "iterating"
    /\ subs[q].pos = Len(subs[q].history)
    /\ ~subs[q].terminal
    /\ svc.queues[q] = <<>>
    /\ subs' = [subs EXCEPT ![q].pc = "closed", ![q].heartbeats = @ + 1]
    /\ svc' = [svc EXCEPT !.entry[subs[q].job].subscribers = @ \ {q}]
    /\ UNCHANGED <<immediate, ready, thread>>
    /\ UNCHANGED notBD

\* time passes on the service's clock
BdTick ==
    /\ svc.now < MaxBdClock
    /\ svc' = [svc EXCEPT !.now = @ + 1]
    /\ UNCHANGED <<immediate, ready, thread, subs>>
    /\ UNCHANGED notBD

\* what subscriber q has received so far, in order
Received(q) == SubSeq(subs[q].history, 1, subs[q].pos) \o subs[q].live

\* what the service has put on q's queue so far (None excluded)
Pushed(q) == subs[q].live \o SelectSeq(svc.queues[q], LAMBDA x : x # CloseMarker)

NextBD ==
    \/ \E j \in Jobs : enqueue_refresh_job(j)
    \/ RunJobTask
    \/ RunJobWakeup
    \/ \E j \in Jobs : ThreadProgress(j)
    \/ \E j \in Jobs : ThreadDone(j)
    \/ LoopProgressCallback
    \/ LoopEmitTask
    \/ LoopSetResult
    \/ LoopExecuteResume
    \/ \E q \in Subs, j \in Jobs : stream_job_events(q, j)
    \/ \E q \in Subs : IteratorNext(q)
    \/ \E q \in Subs : IteratorTimeout(q)
    \/ BdTick

(***************************************************************************)
(* Part III.  Vendor refresh worker                                        *)
(*                                                                         *)
(* ImageRefreshWorker.refresh_profiles runs in one executor thread (the    *)
(* main thread below); each chunk runs client.refresh_profiles in a thread *)
(* of the per-platform ThreadPoolExecutor.                                 *)
(***************************************************************************)
Platforms == {"instagram", "tiktok"}

\* the worker-cap the specification names; the source has no such setting
MAX_WORKERS == 2

Min(a, b) == IF a <= b THEN a ELSE b

\* grouped: platform -> usernames, in order of first appearance (dict order)
RECURSIVE Group(_, _)
Group(handles, acc) ==
    IF handles = <<>> THEN acc
    ELSE LET p == Head(handles)
             at == {i \in 1..Len(acc) : acc[i].platform = p}
         IN Group(Tail(handles),
                  IF at = {}
                  THEN Append(acc, [platform |-> p, usernames |-> 1])
                  ELSE [acc EXCEPT ![CHOOSE i \in at : TRUE].usernames = @ + 1])

grouped == Group(wProfiles, <<>>)

\* len(list(_chunked(usernames, max_urls)))
_chunked(count, size) == (count + size - 1) \div size

total_chunks(k) == _chunked(grouped[k].usernames, MaxUrls)

\* the usernames of platform p as grouped.setdefault(...).append collects
\* them: the handles of p in input order, each named by its place in the input
usernames(p) ==
    LET at == {i \in 1..Len(wProfiles) : wProfiles[i] = p}
    IN [n \in 1..Cardinality(at) |->
          CHOOSE i \in at : Cardinality({j \in at : j < i}) = n - 1]

\* a chunking that would step by size and slice one element short: the
\* variant against which the partition is tested
ChunkSlicesShort(seq, size) ==
    [k \in 1.._chunked(Len(seq), size) |->
        SubSeq(seq, (k - 1) * size + 1, Min(k * size - 1, Len(seq)))]

\* list(_chunked(seq, size)): seq[index : index + size] for index in
\* range(0, len(seq), size)
ChunkSlices(seq, size) ==
    [k \in 1.._chunked(Len(seq), size) |->
        SubSeq(seq, (k - 1) * size + 1, Min(k * size, Len(seq)))]

\* ThreadPoolExecutor(max_workers=max(1, total_chunks))
PoolWorkers(k) == IF total_chunks(k) >= 1 THEN total_chunks(k) ELSE 1

ChunkDone == {"downloaded", "failed"}

\* chunks whose snapshot is triggered and neither downloaded nor failed
InFlight == {i \in DOMAIN wChunk : wChunk[i] \in {"triggered", "sleeping", "ready"}}

\* chunks handed to the pool that a pool thread is working on
Running ==
    {i \in DOMAIN wChunk : wChunk[i] \in {"running", "triggered", "sleeping", "ready"}}

Progress(stage, platform, index) == [stage |-> stage, platform |-> platform, chunk |-> index]

InitWorkerWith(profiles) ==
    /\ wProfiles = profiles
    /\ wPc = "idle"
    /\ wPlatform = 0
    /\ wChunk = <<>>
    /\ wConsumed = {}
    /\ wResults = {}
    /\ wLog = <<>>

\* top of the platform loop: chunk the usernames, report platform_started
EnterPlatform(k) ==
    /\ wPlatform' = k
    /\ wChunk' = [i \in 1..total_chunks(k) |-> "pending"]
    /\ wConsumed' = {}
    /\ wLog' = Append(wLog, Progress("platform_started", grouped[k].platform, 0))
    /\ wPc' = "submit"

\* refresh_profiles: coerce and group the handles (ValueError when there is
\* none), enter the first platform
refresh_profiles ==
    /\ wPc = "idle"
    /\ IF wProfiles = <<>>
       THEN wPc' = "raised" /\ UNCHANGED <<wPlatform, wChunk, wConsumed, wLog>>
       ELSE EnterPlatform(1)
    /\ UNCHANGED <<wProfiles, wResults>>
    /\ UNCHANGED notWk

\* the submit loop: report chunk_started and pool.submit the next chunk; a
\* pool thread takes it when fewer than max_workers chunks are running
SubmitChunk ==
    /\ wPc = "submit"
    /\ LET pending == {i \in DOMAIN wChunk : wChunk[i] = "pending"}
           i == CHOOSE x \in pending : \A y \in pending : x <= y
       IN /\ wLog' = Append(wLog, Progress("chunk_started", grouped[wPlatform].platform, i))
          /\ wChunk' = [wChunk EXCEPT ![i] = "submitted"]
          /\ wPc' = IF pending = {i} THEN "collect" ELSE "submit"
    /\ UNCHANGED <<wProfiles, wPlatform, wConsumed, wResults>>
    /\ UNCHANGED notWk

\* a pool thread picks a submitted chunk up
PoolThreadStart(i) ==
    /\ i \in DOMAIN wChunk /\ wChunk[i] = "submitted"
    /\ Cardinality(Running) < PoolWorkers(wPlatform)
    /\ wChunk' = [wChunk EXCEPT ![i] = "running"]
    /\ UNCHANGED <<wProfiles, wPc, wPlatform, wConsumed, wResults, wLog>>
    /\ UNCHANGED notWk

\* client.refresh_profiles: trigger_snapshot returns an id or raises
trigger_snapshot(i) ==
    /\ i \in DOMAIN wChunk /\ wChunk[i] = "running"
    /\ \E ok \in BOOLEAN :
          wChunk' = [wChunk EXCEPT ![i] = IF ok THEN "triggered" ELSE "failed"]
    /\ UNCHANGED <<wProfiles, wPc, wPlatform, wConsumed, wResults, wLog>>
    /\ UNCHANGED notWk

\* client.refresh_profiles: one round of the `while True` of
\* wait_for_snapshot: get_snapshot_status answers "ready" (return), "failed"
\* (raise) or anything else, and then the thread sleeps poll_interval
wait_for_snapshot(i) ==
    /\ i \in DOMAIN wChunk /\ wChunk[i] = "triggered"
    /\ \E status \in {"ready", "failed", "running"} :
          wChunk' = [wChunk EXCEPT ![i] = IF status = "running" THEN "sleeping"
                                         ELSE status]
    /\ UNCHANGED <<wProfiles, wPc, wPlatform, wConsumed, wResults, wLog>>
    /\ UNCHANGED notWk

\* wait_for_snapshot: time.sleep(poll_interval) returns, next round
poll_sleep(i) ==
    /\ i \in DOMAIN wChunk /\ wChunk[i] = "sleeping"
    /\ wChunk' = [wChunk EXCEPT ![i] = "triggered"]
    /\ UNCHANGED <<wProfiles, wPc, wPlatform, wConsumed, wResults, wLog>>
    /\ UNCHANGED notWk

\* client.refresh_profiles: download_snapshot returns the frame or raises
download_snapshot(i) ==
    /\ i \in DOMAIN wChunk /\ wChunk[i] = "ready"
    /\ \E ok \in BOOLEAN :
          wChunk' = [wChunk EXCEPT ![i] = IF ok THEN "downloaded" ELSE "failed"]
    /\ UNCHANGED <<wProfiles, wPc, wPlatform, wConsumed, wResults, wLog>>
    /\ UNCHANGED notWk

\* an as_completed loop that would pass over a failed chunk and go on (the
\* code lets the chunk's exception leave the loop)
CollectSkippingFailed ==
    /\ wPc = "collect"
    /\ \E i \in DOMAIN wChunk :
        /\ i \notin wConsumed
        /\ wChunk[i] \in ChunkDone
        /\ wConsumed' = wConsumed \cup {i}
        /\ IF wChunk[i] = "downloaded"
           THEN /\ wResults' = wResults \cup {<<grouped[wPlatform].platform, i>>}
                /\ wLog' = Append(wLog, Progress("chunk_finished",
                                                 grouped[wPlatform].platform, i))
           ELSE UNCHANGED <<wResults, wLog>>
        /\ wPc' = wPc
    /\ UNCHANGED <<wProfiles, wPlatform, wChunk>>
    /\ UNCHANGED notWk

\* one round of `for future in as_completed(futures)`: future.result() either
\* returns (aggregate the payload, report chunk_finished) or re-raises the
\* chunk's exception, which leaves the loop and the with-block
CollectCompleted ==
    /\ wPc = "collect"
    /\ \E i \in DOMAIN wChunk :
        /\ i \notin wConsumed
        /\ wChunk[i] \in ChunkDone
        /\ wConsumed' = wConsumed \cup {i}
        /\ IF wChunk[i] = "downloaded"
           THEN /\ wResults' = wResults \cup {<<grouped[wPlatform].platform, i>>}
                /\ wLog' = Append(wLog, Progress("chunk_finished",
                                                 grouped[wPlatform].platform, i))
                /\ wPc' = wPc
           ELSE /\ wPc' = "aborting"
                /\ UNCHANGED <<wResults, wLog>>
    /\ UNCHANGED <<wProfiles, wPlatform, wChunk>>
    /\ UNCHANGED notWk

\* every future was collected: leave the with-block, report
\* platform_finished, go to the next platform or return the aggregate
PlatformFinished ==
    /\ wPc = "collect"
    /\ wConsumed = DOMAIN wChunk
    /\ LET log1 == Append(wLog, Progress("platform_finished",
                                         grouped[wPlatform].platform, 0))
       IN IF wPlatform < Len(grouped)
          THEN /\ wPlatform' = wPlatform + 1
               /\ wChunk' = [i \in 1..total_chunks(wPlatform + 1) |-> "pending"]
               /\ wConsumed' = {}
               /\ wLog' = Append(log1, Progress("platform_started",
                                                grouped[wPlatform + 1].platform, 0))
               /\ wPc' = "submit"
          ELSE /\ wPc' = "returned"
               /\ wLog' = log1
               /\ UNCHANGED <<wPlatform, wChunk, wConsumed>>
    /\ UNCHANGED <<wProfiles, wResults>>
    /\ UNCHANGED notWk

\* the exception leaves the with-block: ThreadPoolExecutor.__exit__ is
\* shutdown(wait=True), which returns when every submitted chunk has ended;
\* the exception then leaves refresh_profiles
PoolShutdown ==
    /\ wPc = "aborting"
    /\ \A i \in DOMAIN wChunk : wChunk[i] \in ChunkDone
    /\ wPc' = "raised"
    /\ UNCHANGED <<wProfiles, wPlatform, wChunk, wConsumed, wResults, wLog>>
    /\ UNCHANGED notWk

NextWorker ==
    \/ refresh_profiles
    \/ SubmitChunk
    \/ \E i \in 1..MaxProfiles : PoolThreadStart(i)
    \/ \E i \in 1..MaxProfiles : trigger_snapshot(i)
    \/ \E i \in 1..MaxProfiles : wait_for_snapshot(i)
    \/ \E i \in 1..MaxProfiles : poll_sleep(i)
    \/ \E i \in 1..MaxProfiles : download_snapshot(i)
    \/ CollectCompleted
    \/ PlatformFinished
    \/ PoolShutdown

(***************************************************************************)
(* Part IV.  Discovery pipeline                                            *)
(*                                                                         *)
(* The stages BrightDataStage, RerankStage, LLMFitStage and the helper     *)
(* normalized_profile_key are imported by the orchestrator; they are       *)
(* modelled by their contract: the normalized key is                       *)
(* lowercase(platform:username), success_keys are the normalized keys of   *)
(* the profiles the vendor refresh reports successful.                     *)
(***************************************************************************)
Usernames == {"Ann", "ann", "bob"}

\* str.lower() on the usernames of the model
Lower(u) == IF u = "Ann" THEN "ann" ELSE u

PipeProfiles == [platform : Platforms, username : Usernames]

\* normalized_profile_key(profile): lowercase(platform + ":" + username)
normalized_profile_key(profile) == <<profile.platform, Lower(profile.username)>>

\* key.lower() on a key
LowerKey(key) == <<key[1], Lower(key[2])>>

Requests ==
    [run_rerank : BOOLEAN, run_brightdata : BOOLEAN, run_llm : BOOLEAN,
     business_fit_query : BOOLEAN,      \* a non-empty query was given
     limited : BOOLEAN,                 \* max_profiles is not None
     max_profiles : {1},
     rerank_top_k : {1, MaxFound},
     rerank_available : BOOLEAN]        \* SearchPipelineService._rerank_available

InitPipeWith(entry, request, found) ==
    /\ pEntry = entry
    /\ pRequest = request
    /\ pFound = found
    /\ pPc = "start"
    /\ pProfiles = <<>>
    /\ pSuccessKeys = <<>>
    /\ pLlmCalled = FALSE
    /\ pLlmInputs = <<>>
    /\ pEvents = <<>>

Max(a, b) == IF a >= b THEN a ELSE b

\* profiles[:max(1, min(max_profiles, len(profiles)))]
Truncate(profiles, max_profiles) ==
    SubSeq(profiles, 1, Max(1, Min(max_profiles, Len(profiles))))

\* run_pipeline + CreatorDiscoveryPipeline.run, up to the rerank decision:
\* RERANK_SKIPPED when rerank was asked for and is unavailable, the search
\* stage, the max_profiles cut
PipeSearch ==
    /\ pPc = "start" /\ pEntry = "run"
    /\ pEvents' = (IF pRequest.run_rerank /\ ~pRequest.rerank_available
                   THEN <<"RERANK_SKIPPED">> ELSE <<>>)
                  \o <<"SEARCH_STARTED", "SEARCH_COMPLETED">>
    /\ pProfiles' = IF pRequest.limited /\ pFound # <<>>
                    THEN Truncate(pFound, pRequest.max_profiles)
                    ELSE pFound
    /\ pPc' = "rerank"
    /\ UNCHANGED <<pEntry, pRequest, pFound, pSuccessKeys, pLlmCalled, pLlmInputs>>
    /\ UNCHANGED notPipe

\* evaluate_profiles: _prepare_results; nothing to do for an empty list
PipePrepare ==
    /\ pPc = "start" /\ pEntry = "evaluate_profiles"
    /\ pProfiles' = IF pFound = <<>> THEN <<>>
                    ELSE IF pRequest.limited
                    THEN Truncate(pFound, pRequest.max_profiles)
                    ELSE pFound
    /\ pPc' = IF pFound = <<>> THEN "returned" ELSE "brightdata"
    /\ UNCHANGED <<pEntry, pRequest, pFound, pSuccessKeys, pLlmCalled, pLlmInputs,
                   pEvents>>
    /\ UNCHANGED notPipe

\* the reorderings of the first top_k-many out of profiles a reranker can return
Reranked(profiles, top_k) ==
    LET n == Len(profiles)
        k == Min(top_k, n)
    IN {[i \in 1..k |-> profiles[f[i]]] :
            f \in {g \in [1..n -> 1..n] : \A a, b \in 1..n : a # b => g[a] # g[b]}}

\* an orchestrator that would run the rerank stage whenever it is requested,
\* client or no client (the code runs it only when a client exists)
PipeRerankWithoutClient ==
    /\ pPc = "rerank"
    /\ IF pRequest.run_rerank
       THEN /\ \E result \in Reranked(pProfiles,
                                      Max(1, Min(pRequest.rerank_top_k, Len(pProfiles)))) :
                 pProfiles' = result
            /\ pEvents' = pEvents \o <<"RERANK_STARTED", "RERANK_COMPLETED">>
       ELSE UNCHANGED <<pProfiles, pEvents>>
    /\ pPc' = "brightdata"
    /\ UNCHANGED <<pEntry, pRequest, pFound, pSuccessKeys, pLlmCalled, pLlmInputs>>
    /\ UNCHANGED notPipe

\* run: the rerank stage, when requested and a client exists
PipeRerank ==
    /\ pPc = "rerank"
    /\ IF pRequest.run_rerank /\ pRequest.rerank_available
       THEN /\ \E result \in Reranked(pProfiles,
                                      Max(1, Min(pRequest.rerank_top_k, Len(pProfiles)))) :
                 pProfiles' = result
            /\ pEvents' = pEvents \o <<"RERANK_STARTED", "RERANK_COMPLETED">>
       ELSE UNCHANGED <<pProfiles, pEvents>>
    /\ pPc' = "brightdata"
    /\ UNCHANGED <<pEntry, pRequest, pFound, pSuccessKeys, pLlmCalled, pLlmInputs>>
    /\ UNCHANGED notPipe

\* the BrightData stage, when requested: the profiles come back enriched, with
\* the normalized keys of those refreshed successfully; or the stage raises
PipeBrightData ==
    /\ pPc = "brightdata"
    /\ IF pRequest.run_brightdata
       THEN \/ /\ \E ok \in SUBSET (1..Len(pProfiles)) :
                    pSuccessKeys' = [i \in 1..Cardinality(ok) |->
                        normalized_profile_key(pProfiles[
                            CHOOSE x \in ok : Cardinality({y \in ok : y < x}) = i - 1])]
               /\ pEvents' = pEvents \o <<"BRIGHTDATA_STARTED", "BRIGHTDATA_COMPLETED">>
               /\ pPc' = "llm"
            \/ /\ pPc' = "raised"
               /\ pEvents' = Append(pEvents, "BRIGHTDATA_STARTED")
               /\ UNCHANGED pSuccessKeys
       ELSE /\ pPc' = "llm"
            /\ UNCHANGED <<pSuccessKeys, pEvents>>
    /\ UNCHANGED <<pEntry, pRequest, pFound, pProfiles, pLlmCalled, pLlmInputs>>
    /\ UNCHANGED notPipe

\* a filter that would let every profile through when nothing succeeded (the
\* code lets none through)
SurvivorsAllWhenEmpty(profiles, success_keys) ==
    LET key_set == {LowerKey(key) : key \in SeqToSet(success_keys)}
    IN IF key_set # {}
       THEN SelectSeq(profiles, LAMBDA profile : normalized_profile_key(profile) \in key_set)
       ELSE profiles

\* key_set = {key.lower() for key in success_keys}; the profiles whose
\* normalized key is in key_set, none when key_set is empty
Survivors(profiles, success_keys) ==
    LET key_set == {LowerKey(key) : key \in SeqToSet(success_keys)}
    IN IF key_set # {}
       THEN SelectSeq(profiles, LAMBDA profile : normalized_profile_key(profile) \in key_set)
       ELSE <<>>

\* the rest of run / evaluate_profiles: the post-BrightData filter with its
\* BRIGHTDATA_FILTERED report, then the LLM stage on what is left
PipeLLM ==
    /\ pPc = "llm"
    /\ LET filtering == IF pEntry = "run"
                        THEN pRequest.run_llm /\ pRequest.run_brightdata
                        ELSE pRequest.run_brightdata
           badQuery == pRequest.run_llm /\ ~pRequest.business_fit_query
           \* run checks the query before it filters, evaluate_profiles after
           filtered == filtering /\ ~(pEntry = "run" /\ badQuery)
           llm_inputs == IF filtering THEN Survivors(pProfiles, pSuccessKeys)
                         ELSE pProfiles
           events1 == IF filtered THEN Append(pEvents, "BRIGHTDATA_FILTERED")
                      ELSE pEvents
           kept == IF filtering /\ pRequest.run_llm THEN llm_inputs ELSE pProfiles
       IN IF badQuery
          THEN /\ pPc' = "raised"
               /\ pEvents' = events1
               /\ pProfiles' = IF pEntry = "run" THEN pProfiles ELSE kept
               /\ UNCHANGED <<pLlmCalled, pLlmInputs>>
          ELSE IF ~pRequest.run_llm
          THEN /\ pPc' = "returned"
               /\ pEvents' = events1
               /\ pProfiles' = kept
               /\ UNCHANGED <<pLlmCalled, pLlmInputs>>
          ELSE IF llm_inputs = <<>>
          THEN /\ pPc' = "returned"
               /\ pEvents' = events1
               /\ pProfiles' = llm_inputs
               /\ UNCHANGED <<pLlmCalled, pLlmInputs>>
          ELSE /\ pPc' = "returned"
               /\ pLlmCalled' = TRUE
               /\ pLlmInputs' = llm_inputs
               /\ pProfiles' = llm_inputs
               /\ pEvents' = events1 \o <<"LLM_FIT_STARTED", "LLM_FIT_COMPLETED">>
    /\ UNCHANGED <<pEntry, pRequest, pFound, pSuccessKeys>>
    /\ UNCHANGED notPipe

NextPipe ==
    \/ PipeSearch
    \/ PipePrepare
    \/ PipeRerank
    \/ PipeBrightData
    \/ PipeLLM

(***************************************************************************)
(* Part V.  Ingestion pipeline, Step 2: submit and collect batches         *)
(*                                                                         *)
(* One SequentialBatchPipeline process at a time.  A state file is written *)
(* by open(path, "w") followed by json.dump: the open truncates the file,  *)
(* the dump fills it; until the dump is through the file holds a prefix of *)
(* the new JSON text.  The process can die at any point.                   *)
(***************************************************************************)
Chunks == 1..NumChunks
Prompts == {"p1", "p2"}

\* no BatchJobRecord / no entry under a chunk number
NoJob == [chunk |-> 0, batch_id |-> 0, status |-> "none", output_file_id |-> FALSE,
          prompt_file |-> "none", result_csv |-> FALSE]

EmptyJobs == [c \in Chunks |-> NoJob]

BatchEnded == {"failed", "expired", "cancelled"}

\* contents of a state file: absent, a complete JSON document, or a prefix
FileAbsent == [kind |-> "absent", data |-> <<>>]
FileOk(data) == [kind |-> "ok", data |-> data]
FilePartial == [kind |-> "partial", data |-> <<>>]

\* the variables of a process that is not running
Down ==
    /\ iPc' = "down"
    /\ iForce' = FALSE /\ iPrompt' = "p1" /\ iTest' = FALSE
    /\ iMem' = EmptyJobs /\ iProc' = {}
    /\ iWriting' = "none"
    /\ iIdx' = 0 /\ iExisting' = NoJob /\ iJob' = NoJob
    /\ iAttempts' = 0 /\ iAnySubmitted' = FALSE

InitIngest ==
    /\ iDisk = [jobs |-> FileAbsent, processed |-> FileAbsent]
    /\ iCsv = {}
    /\ iBatches = <<>>
    /\ iRuns = 0
    /\ iPc = "down"
    /\ iForce = FALSE /\ iPrompt = "p1" /\ iTest = FALSE
    /\ iEverProcessed = {}
    /\ iMem = EmptyJobs /\ iProc = {}
    /\ iWriting = "none"
    /\ iIdx = 0 /\ iExisting = NoJob /\ iJob = NoJob
    /\ iAttempts = 0 /\ iAnySubmitted = FALSE

\* json.load of a state file in __init__: {} when the file is missing or
\* does not parse (JSONDecodeError)
LoadFile(file, empty) == IF file.kind = "ok" THEN file.data ELSE empty

\* _persist_job_state: open("w") truncates, json.dump starts
_persist_job_state(mem) ==
    /\ iMem' = mem
    /\ iDisk' = [iDisk EXCEPT !.jobs = FilePartial]
    /\ iWriting' = "jobs"

\* _record_job(job): job_state[str(chunk_number)] = state; _persist_job_state()
_record_job(job) == _persist_job_state([iMem EXCEPT ![job.chunk] = job])

\* _load_job(chunk_number): None without an entry or with another prompt file
_load_job(c) ==
    IF iMem[c] = NoJob THEN NoJob
    ELSE IF iMem[c].prompt_file # iPrompt THEN NoJob
    ELSE iMem[c]

\* SequentialBatchPipeline.__init__: load both state files; with --force a
\* non-empty job state is cleared and written back
IngestStart(force, prompt, test) ==
    /\ iPc = "down" /\ iRuns < MaxRuns
    /\ iRuns' = iRuns + 1
    /\ iForce' = force /\ iPrompt' = prompt /\ iTest' = test
    /\ LET raw_state == LoadFile(iDisk.jobs, EmptyJobs)
       IN IF force /\ raw_state # EmptyJobs
          THEN /\ iMem' = EmptyJobs
               /\ iDisk' = [iDisk EXCEPT !.jobs = FilePartial]
               /\ iWriting' = "jobs"
          ELSE /\ iMem' = raw_state
               /\ UNCHANGED <<iDisk, iWriting>>
    /\ iProc' = LoadFile(iDisk.processed, {})
    /\ iPc' = "run"
    /\ iIdx' = 0 /\ iExisting' = NoJob /\ iJob' = NoJob
    /\ iAttempts' = 0 /\ iAnySubmitted' = FALSE
    /\ UNCHANGED <<iCsv, iBatches, iEverProcessed>>
    /\ UNCHANGED notIngest

\* the json.dump of the file being written gets through and the file is closed
WriteComplete ==
    /\ iWriting # "none"
    /\ iDisk' = IF iWriting = "jobs"
                THEN [iDisk EXCEPT !.jobs = FileOk(iMem)]
                ELSE [iDisk EXCEPT !.processed = FileOk(iProc)]
    /\ iEverProcessed' = IF iWriting = "processed"
                         THEN iEverProcessed \cup iProc ELSE iEverProcessed
    /\ iWriting' = "none"
    /\ UNCHANGED <<iCsv, iBatches, iRuns, iPc, iForce, iPrompt, iTest, iMem, iProc,
                   iIdx,
                   iExisting, iJob, iAttempts, iAnySubmitted>>
    /\ UNCHANGED notIngest

\* the process dies (kill, power loss, an uncaught exception)
Crash ==
    /\ iPc # "down"
    /\ Down
    /\ UNCHANGED <<iDisk, iCsv, iBatches, iRuns, iEverProcessed>>
    /\ UNCHANGED notIngest

\* run(): return when this input was already processed with this prompt
\* (never with --force or in test mode),
\* else (language filter and prepare being done) enter process_batches
RunBegin ==
    /\ iPc = "run" /\ iWriting = "none"
    /\ IF ~iForce /\ ~iTest /\ iPrompt \in iProc
       THEN Down
       ELSE /\ iPc' = "loop" /\ iIdx' = 1
            /\ UNCHANGED <<iForce, iPrompt, iTest, iMem, iProc, iWriting, iExisting,
                           iJob,
                           iAttempts, iAnySubmitted>>
    /\ UNCHANGED <<iDisk, iCsv, iBatches, iRuns, iEverProcessed>>
    /\ UNCHANGED notIngest

\* process_batches, top of the loop body for one chunk: skip a chunk whose
\* CSV exists, resume a recorded unfinished job, else go and upload
ChunkStep ==
    /\ iPc = "loop" /\ iWriting = "none" /\ iIdx \in Chunks
    /\ LET existing_job == IF iForce THEN NoJob ELSE _load_job(iIdx) IN
       /\ iExisting' = existing_job
       /\ iJob' = NoJob
       /\ iAttempts' = 0
       /\ IF ~iForce /\ iIdx \in iCsv
          THEN /\ iIdx' = iIdx + 1 /\ iPc' = "loop"
               /\ IF existing_job # NoJob /\ existing_job.status # "completed"
                  THEN _record_job([existing_job EXCEPT !.status = "completed",
                                                        !.result_csv = TRUE])
                  ELSE UNCHANGED <<iMem, iDisk, iWriting>>
          ELSE IF existing_job # NoJob /\ existing_job.status = "completed"
                  /\ iIdx \in iCsv
          THEN /\ iIdx' = iIdx + 1 /\ iPc' = "loop"
               /\ UNCHANGED <<iMem, iDisk, iWriting>>
          ELSE IF existing_job # NoJob /\ existing_job.status # "completed"
          THEN IF existing_job.batch_id = 0
               THEN \* _resume_job raises at once; the entry is dropped
                    /\ _persist_job_state([iMem EXCEPT ![iIdx] = NoJob])
                    /\ iPc' = "upload" /\ iIdx' = iIdx
               ELSE /\ iPc' = "polling" /\ iIdx' = iIdx
                    /\ UNCHANGED <<iMem, iDisk, iWriting>>
          ELSE /\ iPc' = "upload" /\ iIdx' = iIdx
               /\ UNCHANGED <<iMem, iDisk, iWriting>>
    /\ UNCHANGED <<iCsv, iBatches, iRuns, iEverProcessed, iForce, iPrompt, iTest,
                   iProc, iAnySubmitted>>
    /\ UNCHANGED notIngest

\* the record _resume_job works on: existing_job, then what _wait_for_batch
\* made of it
ResumedJob == IF iJob = NoJob THEN iExisting ELSE iJob

\* _resume_job / _wait_for_batch: one round of the polling loop.  A completed
\* batch returns the job; a failed, expired or cancelled one raises, and so
\* does the attempts cap; either way the finally clause records the job.
_wait_for_batch ==
    /\ iPc = "polling" /\ iWriting = "none"
    /\ LET batch == iBatches[iExisting.batch_id]
           job == [ResumedJob EXCEPT !.status = batch.status]
       IN IF batch.status = "completed"
          THEN /\ iJob' = [job EXCEPT !.output_file_id = batch.output_file_id]
               /\ _record_job([job EXCEPT !.output_file_id = batch.output_file_id])
               /\ iPc' = "after_wait"
               /\ iAttempts' = iAttempts
          ELSE IF batch.status \in BatchEnded
          THEN /\ iJob' = job
               /\ _record_job(job)
               /\ iPc' = "resume_failed"
               /\ iAttempts' = iAttempts
          ELSE IF iAttempts + 1 >= MaxAttempts
          THEN /\ iJob' = job
               /\ _record_job(job)
               /\ iPc' = "resume_failed"
               /\ iAttempts' = iAttempts + 1
          ELSE /\ iJob' = job
               /\ iAttempts' = iAttempts + 1
               /\ iPc' = "polling"
               /\ UNCHANGED <<iMem, iDisk, iWriting>>
    /\ UNCHANGED <<iCsv, iBatches, iRuns, iEverProcessed, iForce, iPrompt, iTest,
                   iProc, iIdx, iExisting,
                   iAnySubmitted>>
    /\ UNCHANGED notIngest

\* _resume_job after _wait_for_batch returned: without an output file id it
\* raises (and process_batches drops the entry); else the results are
\* downloaded and parsed into the chunk CSV and the job recorded completed
ResumeCollect ==
    /\ iPc = "after_wait" /\ iWriting = "none"
    /\ IF ~iJob.output_file_id
       THEN /\ _persist_job_state([iMem EXCEPT ![iIdx] = NoJob])
            /\ iPc' = "upload"
            /\ UNCHANGED <<iCsv, iJob, iIdx>>
       ELSE /\ iCsv' = iCsv \cup {iIdx}
            /\ iJob' = [iJob EXCEPT !.status = "completed", !.result_csv = TRUE]
            /\ _record_job([iJob EXCEPT !.status = "completed", !.result_csv = TRUE])
            /\ iIdx' = iIdx + 1
            /\ iPc' = "loop"
    /\ UNCHANGED <<iBatches, iRuns, iEverProcessed, iForce, iPrompt, iTest, iProc,
                   iExisting, iAttempts,
                   iAnySubmitted>>
    /\ UNCHANGED notIngest

\* process_batches, except RuntimeError: "Previous batch failed ...
\* Submitting a new batch": pop the entry, persist, fall through to the upload
ResumeFailed ==
    /\ iPc = "resume_failed" /\ iWriting = "none"
    /\ _persist_job_state([iMem EXCEPT ![iIdx] = NoJob])
    /\ iPc' = "upload"
    /\ UNCHANGED <<iCsv, iBatches, iRuns, iEverProcessed, iForce, iPrompt, iTest,
                   iProc, iIdx, iExisting,
                   iJob, iAttempts, iAnySubmitted>>
    /\ UNCHANGED notIngest

\* _upload_and_create_batch, then _record_job(job)
_upload_and_create_batch ==
    /\ iPc = "upload" /\ iWriting = "none"
    /\ Len(iBatches) < MaxBatches
    /\ LET job == [chunk |-> iIdx, batch_id |-> Len(iBatches) + 1,
                   status |-> "in_progress", output_file_id |-> FALSE,
                   prompt_file |-> iPrompt, result_csv |-> FALSE]
       IN /\ iBatches' = Append(iBatches, [chunk |-> iIdx, status |-> "in_progress",
                                           output_file_id |-> FALSE])
          /\ iJob' = job
          /\ _record_job(job)
    /\ iAnySubmitted' = TRUE
    /\ iIdx' = iIdx + 1
    /\ iPc' = "loop"
    /\ UNCHANGED <<iCsv, iRuns, iEverProcessed, iForce, iPrompt, iTest, iProc,
                   iExisting, iAttempts>>
    /\ UNCHANGED notIngest

\* an end of run() that would write the "process" record whether or not a
\* batch was submitted in this run: the variant against which the record is
\* tested
LoopEndAlwaysMarks ==
    /\ iPc = "loop" /\ iWriting = "none" /\ iIdx = NumChunks + 1
    /\ IF iTest
       THEN UNCHANGED <<iProc, iDisk, iWriting>>
       ELSE /\ iProc' = iProc \cup {iPrompt}
            /\ iDisk' = [iDisk EXCEPT !.processed = FilePartial]
            /\ iWriting' = "processed"
    /\ iPc' = "exit"
    /\ UNCHANGED <<iForce, iPrompt, iTest, iMem, iIdx, iExisting, iJob,
                   iAttempts, iAnySubmitted>>
    /\ UNCHANGED <<iCsv, iBatches, iRuns, iEverProcessed>>
    /\ UNCHANGED notIngest

\* end of process_batches and of run(): return when something was submitted,
\* else _mark_processed("process", ...), which outside test mode adds the
\* record and calls _save_processed_files
LoopEnd ==
    /\ iPc = "loop" /\ iWriting = "none" /\ iIdx = NumChunks + 1
    /\ IF iAnySubmitted
       THEN Down /\ UNCHANGED iDisk
       ELSE /\ IF iTest
               THEN UNCHANGED <<iProc, iDisk, iWriting>>
               ELSE /\ iProc' = iProc \cup {iPrompt}
                    /\ iDisk' = [iDisk EXCEPT !.processed = FilePartial]
                    /\ iWriting' = "processed"
            /\ iPc' = "exit"
            /\ UNCHANGED <<iForce, iPrompt, iTest, iMem, iIdx, iExisting, iJob,
                           iAttempts,
                           iAnySubmitted>>
    /\ UNCHANGED <<iCsv, iBatches, iRuns, iEverProcessed>>
    /\ UNCHANGED notIngest

\* run() returns
Exit ==
    /\ iPc = "exit" /\ iWriting = "none"
    /\ Down
    /\ UNCHANGED <<iDisk, iCsv, iBatches, iRuns, iEverProcessed>>
    /\ UNCHANGED notIngest

\* the batch API finishes a batch
BatchAdvance(b) ==
    /\ b \in 1..Len(iBatches)
    /\ iBatches[b].status = "in_progress"
    /\ \/ \E out \in BOOLEAN :
            iBatches' = [iBatches EXCEPT ![b].status = "completed",
                                         ![b].output_file_id = out]
       \/ \E s \in BatchEnded : iBatches' = [iBatches EXCEPT ![b].status = s]
    /\ UNCHANGED <<iDisk, iCsv, iRuns, iEverProcessed, iPc, iForce, iPrompt, iTest,
                   iMem, iProc, iWriting,
                   iIdx, iExisting, iJob, iAttempts, iAnySubmitted>>
    /\ UNCHANGED notIngest

NextIngest ==
    \/ \E force \in BOOLEAN, prompt \in Prompts, test \in BOOLEAN :
          IngestStart(force, prompt, test)
    \/ WriteComplete
    \/ Crash
    \/ RunBegin
    \/ ChunkStep
    \/ _wait_for_batch
    \/ ResumeCollect
    \/ ResumeFailed
    \/ _upload_and_create_batch
    \/ LoopEnd
    \/ Exit
    \/ \E b \in 1..MaxBatches : BatchAdvance(b)

(***************************************************************************)
(* Part VI.  Ingestion pipeline, Steps 0 and 1: language filter, chunk     *)
(* input files                                                             *)
(*                                                                         *)
(* Runs of the pipeline with --stop-after prepare (the default) on one of  *)
(* two input CSVs, each small enough for one chunk.  All runs share the    *)
(* directory pipeline/; the outputs of a CSV carry its namespace in the    *)
(* file name, metadata.json of Step 0 does not.  Between runs the input    *)
(* CSVs and the prompt files can be edited.                                *)
(***************************************************************************)
Datasets == {"a", "b"}
Contents == {"v1", "v2", "w"}
Templates == {"t1", "t2"}
BatchSizes == {1, 2}

LANGUAGE_FILTER_VERSION == "normalized-batching-v4"

\* _hash_file: the sha256 digest of a file of the model
_hash_file(content) ==
    CASE content = "v1" -> "h1"
      [] content = "v2" -> "h2"
      [] OTHER -> "h3"

\* what the language filter makes of a CSV: rows kept and rows excluded
FilterCounts(content) ==
    IF content = "w" THEN [english |-> 2, rejected |-> 1]
    ELSE [english |-> 1, rejected |-> 1]

\* _count_rows of the english and excluded files filtered from content
_count_rows(content) == FilterCounts(content)

NoFile == [exists |-> FALSE]

InitPrep ==
    /\ fCsv = [d \in Datasets |-> "v1"]
    /\ fTemplate = [n \in Prompts |-> "t1"]
    /\ fEnglish = [d \in Datasets |-> NoFile]
    /\ fMeta = NoFile
    /\ fChunk = [d \in Datasets |-> NoFile]
    /\ fChunkMeta = [d \in Datasets |-> NoFile]
    /\ fEdits = 0
    /\ fRuns = 0
    /\ fPc = "down"
    /\ fDs = "a" /\ fForce = FALSE /\ fBatchSize = 1 /\ fPromptName = "p1"
    /\ fHash = "none"
    /\ fDetected = FALSE /\ fWrote = {} /\ fReported = [english |-> 0, rejected |-> 0]

\* somebody edits an input CSV while no run is under way
EditCsv(d, content) ==
    /\ fPc = "down" /\ fEdits < MaxEdits
    /\ fCsv[d] # content
    /\ fCsv' = [fCsv EXCEPT ![d] = content]
    /\ fEdits' = fEdits + 1
    /\ UNCHANGED <<fTemplate, fEnglish, fMeta, fChunk, fChunkMeta, fRuns, fPc, fDs,
                   fForce, fBatchSize, fPromptName, fHash, fDetected, fWrote, fReported>>
    /\ UNCHANGED notPrep

\* somebody edits a prompt file while no run is under way
EditPrompt(n, text) ==
    /\ fPc = "down" /\ fEdits < MaxEdits
    /\ fTemplate[n] # text
    /\ fTemplate' = [fTemplate EXCEPT ![n] = text]
    /\ fEdits' = fEdits + 1
    /\ UNCHANGED <<fCsv, fEnglish, fMeta, fChunk, fChunkMeta, fRuns, fPc, fDs,
                   fForce, fBatchSize, fPromptName, fHash, fDetected, fWrote, fReported>>
    /\ UNCHANGED notPrep

\* SequentialBatchPipeline.__init__ for one CSV: the arguments, file_hash
PrepStart(d, force, size, n) ==
    /\ fPc = "down" /\ fRuns < MaxPrepRuns
    /\ fRuns' = fRuns + 1
    /\ fPc' = "start"
    /\ fDs' = d /\ fForce' = force /\ fBatchSize' = size /\ fPromptName' = n
    /\ fHash' = _hash_file(fCsv[d])
    /\ fDetected' = FALSE /\ fWrote' = {}
    /\ fReported' = [english |-> 0, rejected |-> 0]
    /\ UNCHANGED <<fCsv, fTemplate, fEnglish, fMeta, fChunk, fChunkMeta, fEdits>>
    /\ UNCHANGED notPrep

\* perform_language_filter: reuse_cached
reuse_cached ==
    /\ ~fForce
    /\ fEnglish[fDs].exists /\ fMeta.exists
    /\ fMeta.hash = fHash
    /\ fMeta.version = LANGUAGE_FILTER_VERSION
    /\ fMeta.language_batch_size = fBatchSize

\* perform_language_filter: count the rows of the cached outputs, or filter
\* the CSV into the english and excluded files and write metadata.json
perform_language_filter ==
    /\ fPc = "start"
    /\ IF reuse_cached
       THEN /\ fReported' = _count_rows(fEnglish[fDs].source)
            /\ UNCHANGED <<fEnglish, fMeta, fDetected, fWrote>>
       ELSE /\ fEnglish' = [fEnglish EXCEPT ![fDs] =
                                [exists |-> TRUE, source |-> fCsv[fDs],
                                 language_batch_size |-> fBatchSize]]
            /\ fMeta' = [exists |-> TRUE, hash |-> fHash,
                         version |-> LANGUAGE_FILTER_VERSION,
                         language_batch_size |-> fBatchSize]
            /\ fDetected' = TRUE
            /\ fWrote' = fWrote \cup {"english", "excluded", "metadata"}
            /\ fReported' = FilterCounts(fCsv[fDs])
    /\ fPc' = "filtered"
    /\ UNCHANGED <<fCsv, fTemplate, fChunk, fChunkMeta, fEdits, fRuns, fDs, fForce,
                   fBatchSize, fPromptName, fHash>>
    /\ UNCHANGED notPrep

\* perform_language_filter dies while it filters (kill, power loss, an
\* exception of the detector): the english and excluded files were opened
\* with mode "w" and hold a prefix of the output, metadata.json was not
\* reached and is what it was
FilterInterrupted ==
    /\ fPc = "start"
    /\ ~reuse_cached
    /\ fEnglish' = [fEnglish EXCEPT ![fDs] =
                        [exists |-> TRUE, source |-> "cut",
                         language_batch_size |-> fBatchSize]]
    /\ fDetected' = TRUE
    /\ fWrote' = fWrote \cup {"english", "excluded"}
    /\ fPc' = "down"
    /\ UNCHANGED <<fCsv, fTemplate, fMeta, fChunk, fChunkMeta, fEdits, fRuns, fDs,
                   fForce, fBatchSize, fPromptName, fHash, fReported>>
    /\ UNCHANGED notPrep

\* prepare_batches / _write_chunk_jsonl for the one chunk: keep the chunk
\* file when its metadata has this row count and this prompt file name, else
\* write the chunk file (a prompt per row, built from the template) and its
\* metadata
_write_chunk_jsonl ==
    /\ fPc = "filtered"
    /\ LET rows == FilterCounts(fEnglish[fDs].source).english
           kept == /\ ~fForce
                   /\ fChunk[fDs].exists /\ fChunkMeta[fDs].exists
                   /\ fChunkMeta[fDs].row_count = rows
                   /\ fChunkMeta[fDs].prompt_file = fPromptName
       IN IF kept
          THEN UNCHANGED <<fChunk, fChunkMeta, fWrote>>
          ELSE /\ fChunk' = [fChunk EXCEPT ![fDs] =
                                [exists |-> TRUE, source |-> fEnglish[fDs].source,
                                 template |-> fTemplate[fPromptName]]]
               /\ fChunkMeta' = [fChunkMeta EXCEPT ![fDs] =
                                    [exists |-> TRUE, row_count |-> rows,
                                     prompt_file |-> fPromptName,
                                     source_hash |-> fHash]]
               /\ fWrote' = fWrote \cup {"chunk", "chunk_metadata"}
    /\ fPc' = "prepared"
    /\ UNCHANGED <<fCsv, fTemplate, fEnglish, fMeta, fEdits, fRuns, fDs, fForce,
                   fBatchSize, fPromptName, fHash, fDetected, fReported>>
    /\ UNCHANGED notPrep

\* run() stops after batch preparation and returns
PrepReturn ==
    /\ fPc = "prepared"
    /\ fPc' = "down"
    /\ UNCHANGED <<fCsv, fTemplate, fEnglish, fMeta, fChunk, fChunkMeta, fEdits,
                   fRuns, fDs, fForce, fBatchSize, fPromptName, fHash, fDetected,
                   fWrote, fReported>>
    /\ UNCHANGED notPrep

NextPrep ==
    \/ \E d \in Datasets, content \in Contents : EditCsv(d, content)
    \/ \E n \in Prompts, text \in Templates : EditPrompt(n, text)
    \/ \E d \in Datasets, force \in BOOLEAN, size \in BatchSizes, n \in Prompts :
          PrepStart(d, force, size, n)
    \/ perform_language_filter
    \/ FilterInterrupted
    \/ _write_chunk_jsonl
    \/ PrepReturn

(***************************************************************************)
(* Part VII.  BrightData job registry                                      *)
(*                                                                         *)
(* The registry self._jobs with the clock made explicit: every entry keeps *)
(* the queued_at and ended_at that _cleanup_jobs compares with now and     *)
(* sorts by.  The model runs the service with _jobs_max = RegJobsMax and   *)
(* _jobs_ttl_seconds = RegTtl ticks; the code of _cleanup_jobs depends on  *)
(* the two fields only through the comparisons written below.             *)
(***************************************************************************)
RegIds == 1..MaxRegJobs

NoRegEntry == [status |-> "none", queued_at |-> NoTime, ended_at |-> NoTime]

InitReg ==
    /\ rIds = {}
    /\ rNextId = 1
    /\ rEntry = [j \in RegIds |-> NoRegEntry]
    /\ rNow = 0
    /\ rDropped = {}

\* the sort key of the overflow pass: (ended_at or queued_at); sorted() is
\* stable and the dict keeps insertion order, so ties go to the older key
RegSortKey(entry, j) ==
    IF entry[j].ended_at # NoTime THEN entry[j].ended_at ELSE entry[j].queued_at

RegOlder(entry, a, b) ==
    \/ RegSortKey(entry, a) < RegSortKey(entry, b)
    \/ RegSortKey(entry, a) = RegSortKey(entry, b) /\ a <= b

\* the overflow pass of _cleanup_jobs: pop finished/failed entries, oldest
\* first, until the overflow is gone or none is left
RECURSIVE RegDropOverflow(_, _, _)
RegDropOverflow(ids, entry, overflow) ==
    LET removable == {j \in ids : entry[j].status \in {"finished", "failed"}} IN
    IF overflow <= 0 \/ removable = {}
    THEN ids
    ELSE LET j == CHOOSE x \in removable : \A y \in removable : RegOlder(entry, x, y)
         IN RegDropOverflow(ids \ {j}, entry, overflow - 1)

\* a _cleanup_jobs whose expiry pass would go by (ended_at or queued_at), as
\* the overflow pass sorts: the variant against which the protection of live
\* jobs is tested
_cleanup_jobs_by_age(ids, entry, now) ==
    LET expired == {j \in ids : now - RegSortKey(entry, j) > RegTtl}
        kept == ids \ expired
        overflow == Cardinality(kept) - RegJobsMax
    IN IF overflow <= 0 THEN kept ELSE RegDropOverflow(kept, entry, overflow)

\* _cleanup_jobs at time now: the keys that remain in self._jobs
_cleanup_jobs_at(ids, entry, now) ==
    LET expired == {j \in ids : /\ entry[j].ended_at # NoTime
                                /\ now - entry[j].ended_at > RegTtl}
        kept == ids \ expired
        overflow == Cardinality(kept) - RegJobsMax
    IN IF overflow <= 0 THEN kept ELSE RegDropOverflow(kept, entry, overflow)

\* _emit_event as far as the registry goes: it ends with _cleanup_jobs
RegEmit(ids, entry) ==
    LET left == _cleanup_jobs_at(ids, entry, rNow) IN
    /\ rIds' = left
    /\ rEntry' = entry
    /\ rDropped' = {[id |-> j, age |-> rNow - entry[j].ended_at] : j \in ids \ left}

\* enqueue_refresh_job: add the entry, emit "queued", start the job's task
RegEnqueue ==
    /\ rNextId <= MaxRegJobs
    /\ RegEmit(rIds \cup {rNextId},
               [rEntry EXCEPT ![rNextId] = [status |-> "queued", queued_at |-> rNow,
                                            ended_at |-> NoTime]])
    /\ rNextId' = rNextId + 1
    /\ UNCHANGED rNow
    /\ UNCHANGED notReg

\* _mark_started
RegMarkStarted(j) ==
    /\ rEntry[j].status = "queued"
    /\ RegEmit(rIds, [rEntry EXCEPT ![j].status = "running"])
    /\ UNCHANGED <<rNextId, rNow>>
    /\ UNCHANGED notReg

\* _mark_finished / _mark_failed
RegMarkEnded(j, status) ==
    /\ rEntry[j].status = "running"
    /\ RegEmit(rIds, [rEntry EXCEPT ![j].status = status, ![j].ended_at = rNow])
    /\ UNCHANGED <<rNextId, rNow>>
    /\ UNCHANGED notReg

\* time passes
RegTick ==
    /\ rNow < MaxRegNow
    /\ rNow' = rNow + 1
    /\ UNCHANGED <<rIds, rNextId, rEntry, rDropped>>
    /\ UNCHANGED notReg

NextReg ==
    \/ RegEnqueue
    \/ \E j \in RegIds : RegMarkStarted(j)
    \/ \E j \in RegIds, status \in {"finished", "failed"} : RegMarkEnded(j, status)
    \/ RegTick

(***************************************************************************)
(* Part VIII.  Reranker proxy                                              *)
(*                                                                         *)
(* RerankClient.rerank posts (query, documents, top_k) to the /rerank      *)
(* endpoint, which cuts the documents to top_k, calls the upstream         *)
(* reranker and normalizes its JSON with _parse_response.  Scores are      *)
(* small integers standing for floats.                                     *)
(***************************************************************************)
\* index of an upstream item; NoIndex: the item has no "index" key
NoIndex == -1
UpstreamIndex == {NoIndex} \cup 0..MaxRerankDocs
UpstreamScore == 1..2

\* the JSON shapes _parse_response tells apart: a list of {index, score}
\* objects, a list of [index, score] pairs, a list of bare scores, or
\* something else
Shapes == {"dicts", "pairs", "scores", "other"}

RECURSIVE ItemSeqs(_)
ItemSeqs(n) ==
    IF n = 0 THEN {<<>>}
    ELSE LET shorter == ItemSeqs(n - 1)
         IN shorter \cup {Append(s, [index |-> i, score |-> x]) :
                            s \in shorter, i \in UpstreamIndex, x \in UpstreamScore}

\* the answers the upstream reranker can give
UpstreamAnswers ==
    {a \in [shape : Shapes, items : ItemSeqs(MaxRerankItems)] :
        a.shape = "pairs" => \A n \in 1..Len(a.items) : a.items[n].index # NoIndex}

\* ranking.sort(key=lambda item: item[1], reverse=True): a stable sort,
\* highest score first
RECURSIVE InsertByScore(_, _)
InsertByScore(sorted, item) ==
    IF sorted = <<>> THEN <<item>>
    ELSE IF Head(sorted).score >= item.score
    THEN <<Head(sorted)>> \o InsertByScore(Tail(sorted), item)
    ELSE <<item>> \o sorted

RECURSIVE SortByScore(_)
SortByScore(ranking) ==
    IF ranking = <<>> THEN <<>>
    ELSE InsertByScore(SortByScore(SubSeq(ranking, 1, Len(ranking) - 1)),
                       ranking[Len(ranking)])

\* DeepInfraReranker._parse_response
_parse_response(data) ==
    LET items == data.items
        ranking ==
            IF data.shape = "dicts"
            THEN [n \in 1..Len(items) |->
                    [index |-> IF items[n].index = NoIndex THEN n - 1
                               ELSE items[n].index,
                     score |-> items[n].score]]
            ELSE IF data.shape = "pairs"
            THEN [n \in 1..Len(items) |->
                    [index |-> items[n].index, score |-> items[n].score]]
            ELSE IF data.shape = "scores"
            THEN [n \in 1..Len(items) |-> [index |-> n - 1, score |-> items[n].score]]
            ELSE <<>>
    IN SortByScore(ranking)

InitRerank ==
    /\ kDocuments = 0
    /\ kTopK = 0
    /\ kDocs = 0
    /\ kPc = "start"
    /\ kRanking = <<>>

\* RerankClient.rerank posts the request; rerank_documents cuts the
\* documents: docs = request.documents[:top_k] when top_k is given
rerank_documents(documents, top_k) ==
    /\ kPc = "start"
    /\ kDocuments' = documents
    /\ kTopK' = top_k
    /\ kDocs' = IF top_k # 0 THEN Min(top_k, documents) ELSE documents
    /\ kPc' = "called"
    /\ UNCHANGED kRanking
    /\ UNCHANGED notRerank

\* rerank_async: the upstream answers, _parse_response normalizes, the
\* endpoint wraps the pairs in RerankEntry and the client unwraps them
rerank_async ==
    /\ kPc = "called"
    /\ \E data \in UpstreamAnswers : kRanking' = _parse_response(data)
    /\ kPc' = "returned"
    /\ UNCHANGED <<kDocuments, kTopK, kDocs>>
    /\ UNCHANGED notRerank

NextRerank ==
    \/ \E documents \in 1..MaxRerankDocs, top_k \in 0..MaxRerankDocs :
          rerank_documents(documents, top_k)
    \/ rerank_async

(***************************************************************************)
(* Part IX.  lance_db_id allocation                                        *)
(*                                                                         *)
(* Ids are strings.  str() and int() are tables over the strings of the    *)
(* model: "01" and "1" are different strings with the same int().          *)
(***************************************************************************)
\* the cells an input row can carry: none, numeric, numeric with a blank or a
\* leading zero, not numeric
InputIds == {"", "1", "2", " 1", "01", "x"}

Decimal == <<"1", "2", "3", "4", "5", "6", "7", "8", "9", "10", "11", "12">>

\* str(n)
Str(n) == Decimal[n]

\* str.strip()
Strip(s) == IF s = " 1" THEN "1" ELSE s

\* str.isdigit()
IsDigit(s) == s = "01" \/ \E n \in DOMAIN Decimal : Decimal[n] = s

\* int(s) for a string of digits
IntOf(s) == IF s = "01" THEN 1 ELSE CHOOSE n \in DOMAIN Decimal : Decimal[n] = s

\* a loop that would take the first candidate without looking at used_ids:
\* the variant against which the uniqueness is tested
FirstFreeUnchecked(candidate, used) == candidate

\* candidate = n; while str(candidate) in used_ids: candidate += 1
RECURSIVE FirstFree(_, _)
FirstFree(candidate, used) ==
    IF Str(candidate) \in used THEN FirstFree(candidate + 1, used) ELSE candidate

\* combine_platform_datasets, the Instagram loop; acc holds used_ids,
\* max_numeric_id, instagram_count and the rows written
RECURSIVE CombineInstagram(_, _)
CombineInstagram(rows, acc) ==
    IF rows = <<>> THEN acc
    ELSE LET given == Strip(Head(rows))
             own == IF given = "" THEN Str(acc.count + 1) ELSE given
             lance_id == IF own \in acc.used
                         THEN Str(FirstFree(acc.count + 1, acc.used))
                         ELSE own
         IN CombineInstagram(Tail(rows),
                [used |-> acc.used \cup {lance_id},
                 max_numeric_id |-> IF IsDigit(lance_id)
                                    THEN Max(acc.max_numeric_id, IntOf(lance_id))
                                    ELSE acc.max_numeric_id,
                 count |-> acc.count + 1,
                 out |-> Append(acc.out, lance_id)])

\* combine_platform_datasets, the TikTok loop: starting_lance_id + offset,
\* pushed up while it is in used_ids
RECURSIVE CombineTiktok(_, _, _, _)
CombineTiktok(rows, offset, starting_lance_id, acc) ==
    IF rows = <<>> THEN acc
    ELSE LET free == FirstFree(starting_lance_id + offset, acc.used)
             lance_id == Str(free)
         IN CombineTiktok(Tail(rows), offset + 1, free - offset,
                [acc EXCEPT !.used = @ \cup {lance_id},
                            !.out = Append(@, lance_id)])

combine_platform_datasets(instagram, tiktok) ==
    LET ig == CombineInstagram(instagram,
                  [used |-> {}, max_numeric_id |-> 0, count |-> 0, out |-> <<>>])
        starting_lance_id == IF ig.max_numeric_id > 0 THEN ig.max_numeric_id + 1
                             ELSE ig.count + 1
    IN CombineTiktok(tiktok, 0, starting_lance_id, ig).out

\* the while loop of _allocate: a numeric base takes the next numbers, any
\* other base takes base_1, base_2, ...
RECURSIVE AllocateFree(_, _, _, _, _)
AllocateFree(candidate, base, suffix, next_numeric, used) ==
    IF candidate \notin used
    THEN [candidate |-> candidate, next_numeric |-> next_numeric]
    ELSE IF IsDigit(base)
    THEN AllocateFree(Str(next_numeric), base, suffix, next_numeric + 1, used)
    ELSE AllocateFree(base \o "_" \o Str(suffix), base, suffix + 1, next_numeric, used)

\* assign_combined_lance_ids._allocate(value)
_allocate(value, acc) ==
    LET base == IF value = "" THEN Str(acc.next_numeric) ELSE value
        next1 == IF value = "" THEN acc.next_numeric + 1 ELSE acc.next_numeric
        got == AllocateFree(base, base, 1, next1, acc.used)
    IN [used |-> acc.used \cup {got.candidate},
        next_numeric |-> IF IsDigit(got.candidate)
                         THEN Max(got.next_numeric, IntOf(got.candidate) + 1)
                         ELSE got.next_numeric,
        out |-> Append(acc.out, got.candidate)]

RECURSIVE AllocateAll(_, _)
AllocateAll(rows, acc) ==
    IF rows = <<>> THEN acc
    ELSE AllocateAll(Tail(rows), _allocate(Strip(Head(rows)), acc))

\* assign_combined_lance_ids: the Instagram frame, then the TikTok frame
assign_combined_lance_ids(instagram, tiktok) ==
    AllocateAll(instagram \o tiktok,
                [used |-> {}, next_numeric |-> 1, out |-> <<>>]).out

\* _ensure_lance_ids: the file is kept when every row has an id of its own,
\* else every row gets <namespace>_<row number, six digits>
_ensure_lance_ids(rows, has_column) ==
    LET needs_rewrite ==
            \/ ~has_column
            \/ \E n \in 1..Len(rows) :
                  \/ Strip(rows[n]) = ""
                  \/ \E k \in 1..(n - 1) : Strip(rows[k]) = Strip(rows[n])
    IN IF needs_rewrite
       THEN [n \in 1..Len(rows) |-> "ns_00000" \o Str(n)]
       ELSE rows

InitLance ==
    /\ lInstagram = <<>>
    /\ lTiktok = <<>>
    /\ lHasColumn = TRUE
    /\ lPc = "start"
    /\ lOut = <<>>

InitLanceWith(instagram, tiktok, has_column) ==
    /\ lInstagram = instagram
    /\ lTiktok = tiktok
    /\ lHasColumn = has_column
    /\ lPc = "start"
    /\ lOut = <<>>

\* Step "combine": the two platform folders are streamed into one CSV
LanceCombine ==
    /\ lPc = "start"
    /\ lOut' = combine_platform_datasets(lInstagram, lTiktok)
    /\ lPc' = "combine_platform_datasets"
    /\ UNCHANGED <<lInstagram, lTiktok, lHasColumn>>
    /\ UNCHANGED notLance

\* the parquet build gives the two frames their ids
LanceAssign ==
    /\ lPc = "start"
    /\ lOut' = assign_combined_lance_ids(lInstagram, lTiktok)
    /\ lPc' = "assign_combined_lance_ids"
    /\ UNCHANGED <<lInstagram, lTiktok, lHasColumn>>
    /\ UNCHANGED notLance

\* Step 1 checks the ids of the filtered CSV (the rows of both platforms)
LanceEnsure ==
    /\ lPc = "start"
    /\ lOut' = _ensure_lance_ids(lInstagram \o lTiktok, lHasColumn)
    /\ lPc' = "_ensure_lance_ids"
    /\ UNCHANGED <<lInstagram, lTiktok, lHasColumn>>
    /\ UNCHANGED notLance

NextLance ==
    \/ LanceCombine
    \/ LanceAssign
    \/ LanceEnsure

(***************************************************************************)
(* Part X.  Image proxy                                                    *)
(*                                                                         *)
(* A host is the sequence of its labels.  proxy_image checks the url it is *)
(* given, then hands it to an httpx.AsyncClient built with                 *)
(* follow_redirects=True: client.send follows every redirect itself and    *)
(* returns the last response with the earlier ones in response.history.    *)
(***************************************************************************)
CdnHost == <<"scontent", "cdninstagram", "com">>
InstagramHost == <<"instagram", "com">>
IntranetHost == <<"intranet", "instagram", "com">>
LookalikeHost == <<"evilcdninstagram", "com">>
MetadataHost == <<"169.254.169.254">>
NoHost == <<>>
Hosts == {CdnHost, InstagramHost, IntranetHost, LookalikeHost, MetadataHost}
Schemes == {"http", "https", "ftp", ""}

ALLOWED_IMAGE_HOSTS == {<<"cdninstagram", "com">>, <<"fna", "fbcdn", "net">>, <<"instagram", "com">>}

\* hostname.endswith("." + pattern)
EndsWithDot(hostname, pattern) ==
    /\ Len(hostname) > Len(pattern)
    /\ SubSeq(hostname, Len(hostname) - Len(pattern) + 1, Len(hostname)) = pattern

_is_allowed_host(hostname) ==
    \E pattern \in ALLOWED_IMAGE_HOSTS :
        hostname = pattern \/ EndsWithDot(hostname, pattern)

\* what getaddrinfo answers for a host: the kinds of its addresses, none
\* when the name does not resolve
getaddrinfo(hostname) ==
    CASE hostname = IntranetHost -> {"private"}
      [] hostname = MetadataHost -> {"link_local"}
      [] hostname = NoHost -> {}
      [] OTHER -> {"public"}

_is_public_hostname(hostname) ==
    /\ getaddrinfo(hostname) # {}
    /\ \A ip \in getaddrinfo(hostname) : ip = "public"

InitProxyWith(scheme, host) ==
    /\ xUrl = [scheme |-> scheme, host |-> host]
    /\ xPc = "start"
    /\ xTarget = NoHost
    /\ xSent = <<>>
    /\ xStatus = 0

InitProxy == InitProxyWith("https", CdnHost)

\* proxy_image up to client.send: the checks of the url it was given
proxy_image ==
    /\ xPc = "start"
    /\ LET hostname == xUrl.host
           status == IF xUrl.scheme \notin {"http", "https"} THEN 400
                     ELSE IF hostname = NoHost THEN 400
                     ELSE IF ~_is_allowed_host(hostname) THEN 403
                     ELSE IF ~_is_public_hostname(hostname) THEN 403
                     ELSE 0
       IN /\ xStatus' = status
          /\ xPc' = IF status = 0 THEN "sending" ELSE "rejected"
          /\ xTarget' = IF status = 0 THEN hostname ELSE NoHost
    /\ UNCHANGED <<xUrl, xSent>>
    /\ UNCHANGED notProxy

\* client.send with follow_redirects=True, one hop: the request goes to the
\* target host; the answer is a redirect to any host, which the client
\* follows, or the response client.send returns
ClientSendHop ==
    /\ xPc = "sending"
    /\ xSent' = Append(xSent, xTarget)
    /\ \/ /\ Len(xSent) < MaxRedirects
          /\ \E location \in Hosts : xTarget' = location
          /\ xPc' = "sending"
       \/ /\ xTarget' = NoHost
          /\ xPc' = "responded"
    /\ UNCHANGED <<xUrl, xStatus>>
    /\ UNCHANGED notProxy

\* the host of every response of the chain, response.history and the last
_validate_redirect_chain(chain) ==
    IF \E i \in 1..Len(chain) : chain[i] = NoHost THEN 400
    ELSE IF \E i \in 1..Len(chain) :
              /\ \A k \in 1..(i - 1) :
                    _is_allowed_host(chain[k]) /\ _is_public_hostname(chain[k])
              /\ ~(_is_allowed_host(chain[i]) /\ _is_public_hostname(chain[i]))
         THEN 403
    ELSE 0

\* proxy_image after client.send has returned
ProxyAfterSend ==
    /\ xPc = "responded"
    /\ LET status == _validate_redirect_chain(xSent)
       IN /\ xStatus' = IF status = 0 THEN 200 ELSE status
          /\ xPc' = IF status = 0 THEN "streaming" ELSE "rejected"
    /\ UNCHANGED <<xUrl, xTarget, xSent>>
    /\ UNCHANGED notProxy

NextProxy ==
    \/ proxy_image
    \/ ClientSendHop
    \/ ProxyAfterSend

(***************************************************************************)
(* Part XI.  Standalone fit-scoring job                                    *)
(*                                                                         *)
(* run_profile_fit_stage_job validates the payload as a                    *)
(* ProfileFitStageRequest (at least one profile, a non-empty query) and    *)
(* calls FastAPISearchEngine.run_profile_fit_stage.  The BrightData stage  *)
(* enriches the profiles in place and reports the keys of those the vendor *)
(* refreshed successfully, as in Part IV.                                  *)
(***************************************************************************)
FitRequests == [use_brightdata : BOOLEAN, limited : BOOLEAN, max_profiles : {1}]

InitFitWith(request, profiles) ==
    /\ tRequest = request
    /\ tInput = profiles
    /\ tPc = "start"
    /\ tWorking = <<>>
    /\ tSuccessKeys = <<>>
    /\ tLlmCalled = FALSE
    /\ tLlmInputs = <<>>

InitFit ==
    InitFitWith([use_brightdata |-> FALSE, limited |-> FALSE, max_profiles |-> 1],
                <<[platform |-> "instagram", username |-> "bob"]>>)

\* _prepare_results(profiles, max_profiles)
_prepare_results(profiles, limited, max_profiles) ==
    IF profiles = <<>> THEN <<>>
    ELSE IF limited THEN Truncate(profiles, max_profiles)
    ELSE profiles

\* run_profile_fit_stage up to the BrightData decision
run_profile_fit_stage ==
    /\ tPc = "start"
    /\ LET search_results ==
              _prepare_results(tInput, tRequest.limited, tRequest.max_profiles)
       IN /\ tWorking' = search_results
          /\ tPc' = IF search_results = <<>> THEN "returned"
                    ELSE IF tRequest.use_brightdata THEN "brightdata"
                    ELSE "llm"
    /\ UNCHANGED <<tRequest, tInput, tSuccessKeys, tLlmCalled, tLlmInputs>>
    /\ UNCHANGED notFit

\* BrightDataStage().run(working_set): the vendor refreshes some of the
\* profiles; working_set = bd_result.profiles, every profile of the input,
\* enriched where the vendor answered.  Or the stage raises.
FitBrightData ==
    /\ tPc = "brightdata"
    /\ \/ /\ \E ok \in SUBSET (1..Len(tWorking)) :
               tSuccessKeys' = [i \in 1..Cardinality(ok) |->
                   normalized_profile_key(tWorking[
                       CHOOSE x \in ok : Cardinality({y \in ok : y < x}) = i - 1])]
          /\ tPc' = "llm"
       \/ /\ tPc' = "raised"
          /\ UNCHANGED tSuccessKeys
    /\ UNCHANGED <<tRequest, tInput, tWorking, tLlmCalled, tLlmInputs>>
    /\ UNCHANGED notFit

\* LLMFitStage(ProfileFitAssessor).run(working_set, ...)
FitLLM ==
    /\ tPc = "llm"
    /\ tLlmCalled' = TRUE
    /\ tLlmInputs' = tWorking
    /\ tPc' = "returned"
    /\ UNCHANGED <<tRequest, tInput, tWorking, tSuccessKeys>>
    /\ UNCHANGED notFit

NextFit ==
    \/ run_profile_fit_stage
    \/ FitBrightData
    \/ FitLLM

(***************************************************************************)
(* Specifications                                                          *)
(***************************************************************************)
\* the parts a specification does not exercise stay in their idle state
IdleStream == InitStream /\ RQ_PUBSUB_EVENTS = TRUE
IdleBD == InitBDWith(FALSE)
IdleWorker == InitWorkerWith(<<>>)

RECURSIVE SeqsUpTo(_, _)
SeqsUpTo(S, n) ==
    IF n = 0 THEN {<<>>}
    ELSE LET shorter == SeqsUpTo(S, n - 1)
         IN shorter \cup {Append(s, x) : s \in shorter, x \in S}

IdlePipe ==
    InitPipeWith("run",
                 [run_rerank |-> FALSE, run_brightdata |-> FALSE, run_llm |-> FALSE,
                  business_fit_query |-> FALSE, limited |-> FALSE, max_profiles |-> 1,
                  rerank_top_k |-> 1, rerank_available |-> FALSE],
                 <<>>)

IdleIngest == InitIngest
IdlePrep == InitPrep
IdleReg == InitReg
IdleRerank == InitRerank
IdleLance == InitLance

IdleProxy == InitProxy
IdleFit == InitFit

InitProxySpec ==
    /\ \E scheme \in Schemes, host \in Hosts \cup {NoHost} : InitProxyWith(scheme, host)
    /\ IdleStream /\ IdleBD /\ IdleWorker /\ IdlePipe /\ IdleIngest /\ IdlePrep
    /\ IdleReg /\ IdleRerank /\ IdleLance /\ IdleFit


InitFitSpec ==
    /\ \E request \in FitRequests,
          profiles \in SeqsUpTo(PipeProfiles, MaxFound) \ {<<>>} :
            InitFitWith(request, profiles)
    /\ IdleStream /\ IdleBD /\ IdleWorker /\ IdlePipe /\ IdleIngest /\ IdlePrep
    /\ IdleReg /\ IdleRerank /\ IdleLance /\ IdleProxy

InitStreamSpec ==
    InitStream /\ IdleBD /\ IdleWorker /\ IdlePipe /\ IdleIngest /\ IdlePrep
    /\ IdleReg /\ IdleRerank /\ IdleLance /\ IdleProxy /\ IdleFit
InitBD ==
    /\ \E imm \in BOOLEAN : InitBDWith(imm)
    /\ IdleStream /\ IdleWorker /\ IdlePipe /\ IdleIngest /\ IdlePrep
    /\ IdleReg /\ IdleRerank /\ IdleLance /\ IdleProxy /\ IdleFit
InitWorker ==
    /\ \E profiles \in SeqsUpTo(Platforms, MaxProfiles) : InitWorkerWith(profiles)
    /\ IdleStream /\ IdleBD /\ IdlePipe /\ IdleIngest /\ IdlePrep
    /\ IdleReg /\ IdleRerank /\ IdleLance /\ IdleProxy /\ IdleFit
InitPipe ==
    /\ \E entry \in {"run", "evaluate_profiles"}, request \in Requests,
          found \in SeqsUpTo(PipeProfiles, MaxFound) :
            InitPipeWith(entry, request, found)
    /\ IdleStream /\ IdleBD /\ IdleWorker /\ IdleIngest /\ IdlePrep
    /\ IdleReg /\ IdleRerank /\ IdleLance /\ IdleProxy /\ IdleFit
InitIngestSpec ==
    InitIngest /\ IdleStream /\ IdleBD /\ IdleWorker /\ IdlePipe /\ IdlePrep
    /\ IdleReg /\ IdleRerank /\ IdleLance /\ IdleProxy /\ IdleFit
InitPrepSpec ==
    InitPrep /\ IdleStream /\ IdleBD /\ IdleWorker /\ IdlePipe /\ IdleIngest
    /\ IdleReg /\ IdleRerank /\ IdleLance /\ IdleProxy /\ IdleFit
InitRegSpec ==
    /\ InitReg
    /\ IdleStream /\ IdleBD /\ IdleWorker /\ IdlePipe /\ IdleIngest /\ IdlePrep
    /\ IdleRerank /\ IdleLance /\ IdleProxy /\ IdleFit
InitRerankSpec ==
    /\ InitRerank
    /\ IdleStream /\ IdleBD /\ IdleWorker /\ IdlePipe /\ IdleIngest /\ IdlePrep
    /\ IdleReg /\ IdleLance /\ IdleProxy /\ IdleFit
InitLanceSpec ==
    /\ \E instagram \in SeqsUpTo(InputIds, MaxLanceRows),
          tiktok \in SeqsUpTo(InputIds, MaxLanceRows), has_column \in BOOLEAN :
            InitLanceWith(instagram, tiktok, has_column)
    /\ IdleStream /\ IdleBD /\ IdleWorker /\ IdlePipe /\ IdleIngest /\ IdlePrep
    /\ IdleReg /\ IdleRerank /\ IdleProxy /\ IdleFit

NextStream ==
    \/ JobStart
    \/ JobEmitProgress
    \/ JobEmitCompleted
    \/ JobReturn
    \/ JobFail
    \/ stream_job
    \/ EsSubscribe
    \/ EsSnapshot
    \/ EsListen
    \/ EsPoll
    \/ Tick
    \/ HbTimeout
    \/ HbStop

vars == <<streamVars, bdVars, wkVars, pipeVars, ingestVars, prepVars,
    regVars, rerankVars, lanceVars, proxyVars, fitVars>>

SpecStream == InitStreamSpec /\ [][NextStream]_vars

SpecBD == InitBD /\ [][NextBD]_vars

\* the event loop keeps running the callbacks and tasks that are ready, and
\* a refresh that runs in the executor comes to an end
FairBD ==
    /\ WF_vars(RunJobTask)
    /\ WF_vars(RunJobWakeup)
    /\ WF_vars(LoopProgressCallback)
    /\ WF_vars(LoopEmitTask)
    /\ WF_vars(LoopSetResult)
    /\ WF_vars(LoopExecuteResume)
    /\ \A j \in Jobs : WF_vars(ThreadDone(j))

\* the life of the jobs alone: no subscriber attaches
NextBDJobs ==
    \/ \E j \in Jobs : enqueue_refresh_job(j)
    \/ RunJobTask
    \/ RunJobWakeup
    \/ \E j \in Jobs : ThreadProgress(j)
    \/ \E j \in Jobs : ThreadDone(j)
    \/ LoopProgressCallback
    \/ LoopEmitTask
    \/ LoopSetResult
    \/ LoopExecuteResume

SpecBDFair == InitBD /\ [][NextBDJobs]_vars /\ FairBD

SpecWorker == InitWorker /\ [][NextWorker]_vars

\* the main thread and every pool thread keep being scheduled
FairWorker ==
    /\ WF_vars(refresh_profiles)
    /\ WF_vars(SubmitChunk)
    /\ WF_vars(CollectCompleted)
    /\ WF_vars(PlatformFinished)
    /\ WF_vars(PoolShutdown)
    /\ \A i \in 1..MaxProfiles :
          /\ WF_vars(PoolThreadStart(i))
          /\ WF_vars(trigger_snapshot(i))
          /\ WF_vars(wait_for_snapshot(i))
          /\ WF_vars(poll_sleep(i))
          /\ WF_vars(download_snapshot(i))

SpecWorkerFair == SpecWorker /\ FairWorker

SpecPipe == InitPipe /\ [][NextPipe]_vars

SpecIngest == InitIngestSpec /\ [][NextIngest]_vars

SpecPrep == InitPrepSpec /\ [][NextPrep]_vars

SpecReg == InitRegSpec /\ [][NextReg]_vars

SpecRerank == InitRerankSpec /\ [][NextRerank]_vars

SpecLance == InitLanceSpec /\ [][NextLance]_vars

SpecProxy == InitProxySpec /\ [][NextProxy]_vars

SpecFit == InitFitSpec /\ [][NextFit]_vars

(***************************************************************************)
(* Claims about the search-service job stream                              *)
(***************************************************************************)

\* every event of the job is contained in some delivered frame
AllEventsDelivered ==
    \A i \in 1..Len(jobMetaEvents) :
        \E j \in 1..Len(delivered) : jobMetaEvents[i].seq \in delivered[j].ids

\* C1: the stream of a job ends once the job has reached a terminal state
\* (finished or failed, reached before or after the subscriber attached), in
\* pub/sub mode and in polling mode: when the job is terminal and the stream
\* has read everything that was published, _event_stream is not left waiting
\* for a further message.
C1_StreamEndsOnTerminal ==
    (jobStatus \in Terminal /\ hbPc = "waiting" /\ inbox = <<>>) => esPc # "listen"

\* C3: every event the job records is delivered at least once to a subscriber
\* that stays connected until the stream ends, events emitted after a
\* heartbeat included (stated for runs in which no publish was lost).
C3_AtLeastOnceDelivery ==
    (hbPc = "closed" /\ jobStatus \in Terminal /\ ~pubLost) => AllEventsDelivered

\* C10: after a heartbeat the endpoint keeps the stream open, and so goes on
\* emitting heartbeats, for as long as the job has not reached a terminal
\* state: a stream whose last frame is a heartbeat is closed only when the job
\* is terminal.
C10_HeartbeatsContinue ==
    (hbPc = "closed" /\ delivered # <<>> /\ Last(delivered) = HeartbeatFrame)
        => jobStatus \in Terminal

(***************************************************************************)
(* Claims about the BrightData job service                                 *)
(***************************************************************************)

\* the events of a sequence carry strictly increasing emission numbers: each
\* event occurs once, in append order
InAppendOrder(evs) ==
    \A i, k \in 1..Len(evs) : i < k => evs[i].n < evs[k].n

\* C2: a subscriber that called stream_job_events on a job whose status was
\* already finished or failed is handed exactly the job's recorded events, in
\* append order and each once, the last one being the terminal event; it has
\* no queue to wait on, gets nothing else, and once it has closed it has
\* received exactly that history.
C2_TerminalSubscriberReplay ==
    \A q \in Subs :
        subs[q].attachStatus \in Terminal =>
            LET it == subs[q] IN
            /\ it.history = svc.entry[it.job].events
            /\ it.history # <<>>
            /\ Last(it.history).event = it.attachStatus
            /\ InAppendOrder(it.history)
            /\ it.terminal /\ ~it.hasQueue
            /\ it.live = <<>> /\ svc.queues[q] = <<>> /\ it.heartbeats = 0
            /\ (it.pc = "closed" => Received(q) = it.history)

\* a subscriber attached to a terminal job, replayed queued/started/.../
\* terminal and closed
C2_Witness ==
    \E q \in Subs :
        /\ subs[q].attachStatus \in Terminal
        /\ subs[q].pc = "closed"
        /\ Len(Received(q)) >= 3

\* C4: once a job's status is finished or failed, no step appends an event to
\* its event list or puts one on the queue of a subscriber of that job; this
\* includes the progress events the worker thread scheduled on the loop.
C4_NoEventAfterTerminal ==
    [][\A j \in Jobs :
          svc.entry[j].status \in Terminal =>
              /\ svc'.entry[j].events = svc.entry[j].events
              /\ \A q \in Subs :
                    subs[q].job = j => Pushed(q)' = Pushed(q)]_vars

\* a job that emitted progress events from its worker thread to a live
\* subscriber has become terminal, and the loop went on running
C4_Witness ==
    \E j \in Jobs, q \in Subs :
        /\ svc.entry[j].status \in Terminal
        /\ subs[q].job = j /\ subs[q].hasQueue
        /\ \E i \in 1..Len(Pushed(q)) : Pushed(q)[i].event = "progress"
        /\ \E k \in Jobs : k # j /\ svc.entry[k].status = "running"
(***************************************************************************)
(* Claims about the vendor refresh worker                                  *)
(***************************************************************************)

\* C5: a chunk whose snapshot fails aborts only that chunk: with one chunk
\* failed and another one downloaded, the refresh is not aborted and does not
\* raise, and when it has returned its result holds every downloaded chunk.
C5_FailedChunkPartialSuccess ==
    ( /\ \E i \in DOMAIN wChunk : wChunk[i] = "failed"
      /\ \E k \in DOMAIN wChunk : wChunk[k] = "downloaded" )
    => /\ wPc \notin {"aborting", "raised"}
       /\ wPc = "returned" =>
             \A k \in DOMAIN wChunk :
                 wChunk[k] = "downloaded"
                     => <<grouped[wPlatform].platform, k>> \in wResults

\* C9: the chunks of the current platform that are in flight (triggered, not
\* yet downloaded or failed) number at most min(chunkCount, MAX_WORKERS).
C9_InFlightWithinWorkerCap ==
    Cardinality(InFlight) <= Min(Cardinality(DOMAIN wChunk), MAX_WORKERS)
(***************************************************************************)
(* Claims about the discovery pipeline                                     *)
(***************************************************************************)

\* C6: in a run with run_brightdata and run_llm, every profile handed to the
\* LLM fit stage has its normalized key among the BrightData success keys,
\* and when there is no success key the LLM stage is not called at all.
C6_LlmInputsInSuccessSet ==
    (pRequest.run_brightdata /\ pRequest.run_llm) =>
        /\ pLlmCalled =>
              \A i \in 1..Len(pLlmInputs) :
                  normalized_profile_key(pLlmInputs[i]) \in SeqToSet(pSuccessKeys)
        /\ (pPc \in {"returned", "raised"} /\ pSuccessKeys = <<>>) =>
              (~pLlmCalled /\ pLlmInputs = <<>>)

\* a run that refreshed two profiles, one successfully, and scored only that
\* one, whose username is not lowercase
C6_Witness ==
    /\ pRequest.run_brightdata /\ pRequest.run_llm
    /\ pLlmCalled
    /\ Len(pFound) = 2 /\ ~pRequest.limited
    /\ Len(pLlmInputs) = 1
    /\ pLlmInputs[1].username = "Ann"

(***************************************************************************)
(* Claims about the ingestion pipeline                                     *)
(***************************************************************************)

\* C7: when process_batches found a recorded, unfinished batch for the chunk
\* (existing_job, same prompt file, no --force) and then has a new batch in
\* hand for that chunk (job), the recorded batch has ended in failed, expired
\* or cancelled: a batch still in progress, or completed, is never replaced.
C7_ResumeDoesNotResubmit ==
    ( /\ iExisting # NoJob
      /\ iExisting.status # "completed"
      /\ iExisting.batch_id # 0
      /\ iJob # NoJob
      /\ iJob.batch_id # iExisting.batch_id )
    => iBatches[iExisting.batch_id].status \in BatchEnded

\* C8: when no process is running (the last one returned or died), each of
\* the two state files is absent or a complete document, never a prefix of
\* one.
C8_StateFilesNeverPartial ==
    iPc = "down" =>
        /\ iDisk.jobs.kind # "partial"
        /\ iDisk.processed.kind # "partial"

\* C11: when a search-service job ends in status failed (its function raised,
\* the RQ job timeout included), the worker has recorded and published a
\* terminal event for it: the last event of the job is not a progress event.
C11_FailedJobHasTerminalEvent ==
    jobStatus = "failed" =>
        /\ jobMetaEvents # <<>>
        /\ Last(jobMetaEvents).stage \in {"completed", "failed", "error"}

\* C12: every run of the vendor refresh comes to an end, returning (job
\* finished) or raising (job failed), whatever the vendor answers to the
\* status polls.
C12_RefreshTerminates ==
    <>(wPc \in {"returned", "raised"})

\* position of an event's stage in the stage order; BRIGHTDATA_FILTERED has a
\* place of its own after the BrightData stage
StageRank(e) ==
    CASE e \in {"SEARCH_STARTED", "SEARCH_COMPLETED"} -> 1
      [] e \in {"RERANK_STARTED", "RERANK_COMPLETED", "RERANK_FAILED",
                "RERANK_SKIPPED"} -> 2
      [] e \in {"BRIGHTDATA_STARTED", "BRIGHTDATA_COMPLETED"} -> 3
      [] e = "BRIGHTDATA_FILTERED" -> 4
      [] OTHER -> 5

\* the _STARTED event of the stage a _COMPLETED event belongs to
StartedOf(e) ==
    CASE e = "SEARCH_COMPLETED" -> "SEARCH_STARTED"
      [] e = "RERANK_COMPLETED" -> "RERANK_STARTED"
      [] e = "BRIGHTDATA_COMPLETED" -> "BRIGHTDATA_STARTED"
      [] OTHER -> "LLM_FIT_STARTED"

\* C13: the progress events of a pipeline run follow the stage order: the first
\* event is SEARCH_STARTED, no event of an earlier stage comes after one of a
\* later stage (search, rerank, BrightData, BRIGHTDATA_FILTERED, LLM fit), and
\* every _COMPLETED has its stage's _STARTED before it.
C13_EventsFollowStageOrder ==
    pEntry = "run" =>
        /\ pEvents # <<>> => pEvents[1] = "SEARCH_STARTED"
        /\ \A i, j \in 1..Len(pEvents) :
              i < j => StageRank(pEvents[i]) <= StageRank(pEvents[j])
        /\ \A j \in 1..Len(pEvents) :
              pEvents[j] \in {"SEARCH_COMPLETED", "RERANK_COMPLETED",
                              "BRIGHTDATA_COMPLETED", "LLM_FIT_COMPLETED"}
              => \E i \in 1..(j - 1) : pEvents[i] = StartedOf(pEvents[j])

\* C14: a pipeline run in which the BrightData stage ran and which returned
\* has dropped every profile whose normalized key is not a success key and
\* has emitted exactly one BRIGHTDATA_FILTERED event, with run_llm set or not.
C14_FilterAfterBrightData ==
    ( /\ pPc = "returned"
      /\ \E i \in 1..Len(pEvents) : pEvents[i] = "BRIGHTDATA_COMPLETED" )
    => /\ \A i \in 1..Len(pProfiles) :
             normalized_profile_key(pProfiles[i]) \in SeqToSet(pSuccessKeys)
       /\ Cardinality({i \in 1..Len(pEvents) : pEvents[i] = "BRIGHTDATA_FILTERED"}) = 1

\* C15: the chunks are handled strictly one after the other: whenever a batch
\* exists for a chunk, every earlier chunk has its result CSV.
C15_StrictlySequentialBatches ==
    \A b \in 1..Len(iBatches) :
        \A c \in Chunks : c < iBatches[b].chunk => c \in iCsv

(***************************************************************************)
(* Claims about Steps 0 and 1 of the ingestion pipeline                    *)
(***************************************************************************)

\* C16: when Step 0 runs without --force on a CSV whose english and excluded
\* files were filtered from its present contents with the present batch size
\* (and filter version), it takes the cache-hit path: the detector is not
\* invoked, no file is written and the reported counts are those of the
\* first run.
C16_RerunTakesCacheHit ==
    [][( /\ fPc = "start" /\ fPc' = "filtered"
         /\ ~fForce
         /\ fEnglish[fDs].exists
         /\ fEnglish[fDs].source = fCsv[fDs]
         /\ fEnglish[fDs].language_batch_size = fBatchSize )
       => /\ ~fDetected'
          /\ fWrote' = {}
          /\ fReported' = FilterCounts(fCsv[fDs])]_vars

\* C17: Step 1 leaves an existing chunk file alone only when the chunk is
\* unchanged: its metadata has the row count, the source hash and the prompt
\* file name of this run and the file was built with the present text of the
\* prompt; otherwise the chunk file is written again.
C17_ChunkKeptOnlyWhenUnchanged ==
    (fPc = "prepared" /\ "chunk" \notin fWrote) =>
        /\ fChunkMeta[fDs].row_count = FilterCounts(fEnglish[fDs].source).english
        /\ fChunkMeta[fDs].source_hash = fHash
        /\ fChunkMeta[fDs].prompt_file = fPromptName
        /\ fChunk[fDs].template = fTemplate[fPromptName]

(***************************************************************************)
(* Further claims about Step 2 and the state files                         *)
(***************************************************************************)

\* C18: a run without --force (and outside test mode) for an input whose
\* "process" record for this prompt was once written in full is a no-op: it
\* returns from run() at once and never gets to Step 2 (no upload, no batch,
\* no write of a state file).
C18_RerunOfProcessedIsNoOp ==
    ( /\ iPc \in {"loop", "polling", "after_wait", "resume_failed", "upload"}
      /\ ~iForce /\ ~iTest )
    => iPrompt \notin iEverProcessed

(***************************************************************************)
(* Claims about the BrightData job registry                                *)
(***************************************************************************)

\* C19: a job in a terminal state is never evicted from the registry before
\* the result TTL has elapsed since the job ended: every entry a cleanup
\* pops had ended more than the TTL before that cleanup.
C19_TerminalKeptUntilTtl == \A d \in rDropped : d.age > RegTtl

\* C20: the number of job records is bounded: after every cleanup the
\* registry holds at most _jobs_max jobs, for any sequence of enqueues and
\* completions (every step of the registry other than the clock ends with a
\* cleanup, and the registry starts empty).
C20_RegistryBounded == Cardinality(rIds) <= RegJobsMax

(***************************************************************************)
(* Claims about the outcome and the event list of a BrightData job         *)
(***************************************************************************)

C23_EventsWithinJobLifetime ==
    \A j \in Jobs :
        svc.entry[j].status \in Terminal =>
            \A i \in 1..Len(svc.entry[j].events) :
                /\ svc.entry[j].queued_at <= svc.entry[j].events[i].timestamp
                /\ svc.entry[j].events[i].timestamp <= svc.entry[j].ended_at

\* the positions of wLog that report `stage` for chunk c of platform p
LogAt(stage, p, c) ==
    {n \in 1..Len(wLog) : wLog[n] = Progress(stage, p, c)}

\* C24: the events of a chunk are paired and ordered: its chunk_started
\* precedes its chunk_finished, no chunk gets more than one of each, and when
\* the refresh returns every chunk_started has its chunk_finished, also when
\* the chunks complete out of order.
C24_ChunkEventsPaired ==
    \A p \in Platforms, c \in 1..MaxProfiles :
        /\ Cardinality(LogAt("chunk_started", p, c)) <= 1
        /\ Cardinality(LogAt("chunk_finished", p, c)) <= 1
        /\ \A f \in LogAt("chunk_finished", p, c) :
              \E s \in LogAt("chunk_started", p, c) : s < f
        /\ (wPc = "returned" /\ LogAt("chunk_started", p, c) # {})
              => LogAt("chunk_finished", p, c) # {}

\* a refresh has returned after chunk 2 of a platform finished before chunk 1
C24_Witness ==
    /\ wPc = "returned"
    /\ \E p \in Platforms :
          \E a \in LogAt("chunk_finished", p, 2), b \in LogAt("chunk_finished", p, 1) :
              a < b

\* the place of a platform in alphabetical order
AlphabeticalRank(p) == IF p = "instagram" THEN 1 ELSE 2

\* C25: a refresh processes the platforms in alphabetical order, whatever the
\* order in which the handles of the platforms appear in the input: the
\* platform_started reports come in alphabetical order.
C25_PlatformsAlphabetical ==
    \A a, b \in 1..Len(wLog) :
        (a < b /\ wLog[a].stage = "platform_started" /\ wLog[b].stage = "platform_started")
            => AlphabeticalRank(wLog[a].platform) <= AlphabeticalRank(wLog[b].platform)

\* C26: when the profile list that enters the LLM stage is empty, the stage
\* still reports its _STARTED and _COMPLETED events (with zero counts) and the
\* result is empty: a run or evaluation that asked for the LLM stage, got a
\* valid query and returned nothing has both events in its report.
C26_EmptyStageStillReports ==
    (pPc = "returned" /\ pRequest.run_llm /\ pRequest.business_fit_query
     /\ pProfiles = <<>>)
        => /\ \E n \in 1..Len(pEvents) : pEvents[n] = "LLM_FIT_STARTED"
           /\ \E n \in 1..Len(pEvents) : pEvents[n] = "LLM_FIT_COMPLETED"

\* how often `stage` was reported
Reported(stage) == Cardinality({n \in 1..Len(pEvents) : pEvents[n] = stage})

\* sub is what is left of seq after dropping some of its elements
RECURSIVE KeepsOrderOf(_, _)
KeepsOrderOf(sub, seq) ==
    IF sub = <<>> THEN TRUE
    ELSE IF seq = <<>> THEN FALSE
    ELSE IF Head(sub) = Head(seq) THEN KeepsOrderOf(Tail(sub), Tail(seq))
    ELSE KeepsOrderOf(sub, Tail(seq))

\* C27: when run_rerank is set and no rerank client is configured, the
\* pipeline reports RERANK_SKIPPED (once, and never a rerank stage event) and
\* goes on through the remaining stages with the search order unchanged: the
\* requested BrightData and LLM stages run, and the profiles keep the order
\* the search returned them in.
C27_RerankSkippedAndContinue ==
    (pEntry = "run" /\ pRequest.run_rerank /\ ~pRequest.rerank_available /\ pPc # "start")
    => /\ Reported("RERANK_SKIPPED") = 1
       /\ Reported("RERANK_STARTED") = 0
       /\ KeepsOrderOf(pProfiles, pFound)
       /\ pPc = "returned" =>
            /\ pRequest.run_brightdata => Reported("BRIGHTDATA_COMPLETED") = 1
            /\ (pRequest.run_llm /\ pProfiles # <<>>) => pLlmCalled

\* a run with rerank requested and no client has gone through the BrightData
\* and LLM stages and returned two profiles
C27_Witness ==
    /\ pEntry = "run" /\ pRequest.run_rerank /\ ~pRequest.rerank_available
    /\ pPc = "returned" /\ pLlmCalled
    /\ Reported("BRIGHTDATA_COMPLETED") = 1
    /\ Len(pProfiles) = 2 /\ pProfiles[1] # pProfiles[2]

(***************************************************************************)
(* Claims about the reranker proxy                                         *)
(***************************************************************************)

\* C28: for every rerank call the returned (index, score) pairs have every
\* index within [0, len(documents)), no index twice, scores non-increasing,
\* and at most top_k pairs, whatever the upstream reranker returns.
C28_RankingWellFormed ==
    kPc = "returned" =>
        /\ \A n \in 1..Len(kRanking) :
              kRanking[n].index >= 0 /\ kRanking[n].index < kDocuments
        /\ \A a, b \in 1..Len(kRanking) :
              a # b => kRanking[a].index # kRanking[b].index
        /\ \A a, b \in 1..Len(kRanking) :
              a < b => kRanking[a].score >= kRanking[b].score
        /\ kTopK # 0 => Len(kRanking) <= kTopK

(***************************************************************************)
(* Claims about the lance_db_id allocation                                 *)
(***************************************************************************)

\* C29: in the combined dataset no two rows share a lance_db_id, whatever the
\* input ids are (missing, repeated within a platform, repeated across the
\* platforms, numeric or not): an id given to one row is given to no other.
C29_LanceIdsUnique ==
    lPc # "start" =>
        /\ Len(lOut) = Len(lInstagram) + Len(lTiktok)
        /\ \A a, b \in 1..Len(lOut) : a # b => lOut[a] # lOut[b]

\* a combination of inputs with a missing id, an id repeated within Instagram
\* and the same id in TikTok has been given its ids
C29_Witness ==
    /\ lPc \in {"combine_platform_datasets", "assign_combined_lance_ids"}
    /\ lInstagram = <<"1", "1">>
    /\ lTiktok = <<"1", "">>

\* the concatenation of a sequence of sequences
RECURSIVE Flatten(_)
Flatten(ss) == IF ss = <<>> THEN <<>> ELSE Head(ss) \o Flatten(Tail(ss))

\* C30: for every platform of a refresh the chunks are a partition of the
\* platform's handles in input order: every handle is in exactly one chunk,
\* every chunk holds between 1 and the maximum number of handles, only the
\* last chunk may hold fewer than the maximum; and the refresh submits exactly
\* these chunks.
C30_ChunksPartitionHandles ==
    /\ \A p \in Platforms :
          LET chunks == ChunkSlices(usernames(p), MaxUrls) IN
          /\ Flatten(chunks) = usernames(p)
          /\ \A k \in 1..Len(chunks) :
                /\ Len(chunks[k]) >= 1 /\ Len(chunks[k]) <= MaxUrls
                /\ k < Len(chunks) => Len(chunks[k]) = MaxUrls
    /\ wPlatform # 0 =>
          /\ grouped[wPlatform].usernames = Len(usernames(grouped[wPlatform].platform))
          /\ Len(wChunk) = Len(ChunkSlices(usernames(grouped[wPlatform].platform), MaxUrls))

\* a refresh of five handles of one platform and a maximum of two has
\* returned: chunks of sizes 2, 2 and 1
C30_Witness ==
    /\ wPc = "returned"
    /\ Len(wProfiles) = 5
    /\ Len(wChunk) = 3
    /\ Len(ChunkSlices(usernames("instagram"), MaxUrls)[3]) = 1

(***************************************************************************)
(* Claims about the image proxy                                            *)
(***************************************************************************)
\* C31: the image proxy never sends a request to a host that has not passed
\* the allow-list and public-address checks, at any hop of a redirect chain.
C31_OnlyCheckedHostsRequested ==
    \A i \in 1..Len(xSent) :
        _is_allowed_host(xSent[i]) /\ _is_public_hostname(xSent[i])

\* C32: a subscriber that attached to a job while it was queued or running
\* has received, at every moment, a prefix of the job's event list (every
\* event once, in append order), and when its stream has ended it has
\* received the whole list, the terminal event last.
C32_LiveSubscriberGetsEveryEvent ==
    \A q \in Subs :
        (subs[q].pc \in {"iterating", "closed"} /\ ~subs[q].terminal) =>
            LET events == svc.entry[subs[q].job].events IN
            /\ Len(Received(q)) <= Len(events)
            /\ Received(q) = SubSeq(events, 1, Len(Received(q)))
            /\ subs[q].pc = "closed" =>
                  /\ Received(q) = events
                  /\ events[Len(events)].event \in {"finished", "failed"}

\* C33: a run without --force that is about to upload a chunk for which it
\* found no entry in the job state has no batch for that chunk alive at the
\* batch API: a batch once created is remembered by the persisted job state,
\* whatever crash came after its creation.
C33_CreatedBatchIsRemembered ==
    ( /\ iPc = "upload"
      /\ ~iForce
      /\ iExisting = NoJob
      /\ iMem[iIdx] = NoJob )
    => \A b \in 1..Len(iBatches) :
          iBatches[b].chunk = iIdx => iBatches[b].status \in BatchEnded

\* C34: when Step 0 has taken the cache-hit path (it ended without invoking
\* the detector), the english and excluded files it reuses are the complete
\* result of filtering the present contents of the CSV of this run.
C34_CacheHitReusesOwnOutput ==
    (fPc = "filtered" /\ ~fDetected) => fEnglish[fDs].source = fCsv[fDs]

TerminalEvents(j) ==
    {i \in 1..Len(svc.entry[j].events) :
        svc.entry[j].events[i].event \in {"finished", "failed"}}

\* C36: a job's status only moves queued -> running -> finished or failed (a
\* job run inline is queued and started within enqueue_refresh_job): a
\* terminal status never changes again, a job is marked terminal once, and
\* started_at is set, and not later than ended_at, when ended_at is set.
C36_StatusOnlyMovesForward ==
    /\ [][\A j \in Jobs :
            LET old == svc.entry[j].status
                new == svc'.entry[j].status
            IN old # new =>
                 \/ old = "none" /\ new \in {"queued", "running"}
                 \/ old = "queued" /\ new = "running"
                 \/ old = "running" /\ new \in {"finished", "failed"}]_vars
    /\ [](\A j \in Jobs :
            /\ Cardinality(TerminalEvents(j)) <= 1
            /\ svc.entry[j].status \in {"finished", "failed"}
                  <=> svc.entry[j].ended_at # NoTime
            /\ svc.entry[j].status \in {"running", "finished", "failed"}
                  <=> svc.entry[j].started_at # NoTime
            /\ svc.entry[j].ended_at # NoTime =>
                  svc.entry[j].started_at <= svc.entry[j].ended_at)

\* one job has finished and another has failed, one of them having started
\* before the clock reading at which it ended
C36_Witness ==
    \E j, k \in Jobs :
        /\ svc.entry[j].status = "finished"
        /\ svc.entry[k].status = "failed"
        /\ svc.entry[j].started_at < svc.entry[j].ended_at
        /\ Cardinality(TerminalEvents(j)) = 1
        /\ Cardinality(TerminalEvents(k)) = 1

\* C37: cleanup never removes a job that is queued or running: every such
\* job is in the registry, and every entry a cleanup pops is finished or
\* failed.
C37_LiveJobsStayRegistered ==
    /\ \A j \in RegIds :
          rEntry[j].status \in {"queued", "running"} => j \in rIds
    /\ \A d \in rDropped : rEntry[d.id].status \in {"finished", "failed"}

\* a cleanup has popped an entry while the registry is over its limit and
\* holds a queued job that has waited longer than the TTL
C37_Witness ==
    /\ rDropped # {}
    /\ Cardinality(rIds) >= RegJobsMax
    /\ \E j \in rIds : /\ rEntry[j].status = "queued"
                       /\ rNow - rEntry[j].queued_at > RegTtl

\* C38: a request with run_llm set and no business_fit_query is rejected
\* before any stage runs: no stage event is ever emitted for it.
C38_InvalidRequestRunsNoStage ==
    (pRequest.run_llm /\ ~pRequest.business_fit_query) => pEvents = <<>>

(***************************************************************************)
(* Claims about the standalone fit-scoring job                             *)
(***************************************************************************)
\* C39: in the fit-scoring job with use_brightdata set, every profile passed
\* to the LLM has its normalized key among the keys the BrightData stage
\* reported as successful.
C39_FitJobScoresOnlySuccessful ==
    (tRequest.use_brightdata /\ tLlmCalled) =>
        \A i \in 1..Len(tLlmInputs) :
            normalized_profile_key(tLlmInputs[i]) \in SeqToSet(tSuccessKeys)

\* C40: the "process" record is written to the processed-files history only
\* by a run at whose end every chunk has its result CSV and which has not
\* submitted a batch: whenever the history file is being written, and
\* whenever a step changes it, that is the case.
C40_ProcessRecordOnlyWhenComplete ==
    /\ [](iWriting = "processed" =>
             /\ \A c \in Chunks : c \in iCsv
             /\ ~iAnySubmitted)
    /\ [][iDisk'.processed # iDisk.processed =>
             /\ \A c \in Chunks : c \in iCsv
             /\ ~iAnySubmitted]_vars

\* a later run that found a batch recorded, waited for it and collected its
\* results is writing the "process" record
C40_Witness ==
    /\ iWriting = "processed"
    /\ iRuns >= 2
    /\ iBatches # <<>>
    /\ \A c \in Chunks : c \in iCsv
====
